---- MODULE Spec2Model ----
(***************************************************************************)
(* Model of the migration engine of go-migration: the migration Registry,  *)
(* the Tracker and BatchManager over the tracking table, the hook          *)
(* pipeline, the Runner and the Migrator operations Up, Rollback, Reset,   *)
(* Refresh, Fresh and Status, the seeder Registry and Runner, and the      *)
(* connection Manager of the database package.                             *)
(*                                                                         *)
(* Migration names are modelled by the naturals 1..MaxNames; the order of  *)
(* the naturals stands for the lexicographic order of the timestamped      *)
(* names. Every call that the code makes on a collaborator (tracking       *)
(* table statement, hook, transaction, migration body) is written to the   *)
(* event log of the running operation, and fails exactly when its          *)
(* signature is in the fault set the operation is run with.                *)
(***************************************************************************)
EXTENDS Naturals, Integers, Sequences, FiniteSets, TLC

\* ---------------------------------------------------------------- bounds
MaxNames == 3
MaxBatch == 2
MaxHooks == 2
MaxSeeders == 3
MaxEdges == 3
MaxCalls == 4
MaxTime == 2
MaxConns == 2
MaxRoutines == 2
MaxColumns == 2
MaxClauses == 1
MaxSize == 2

Names == 1..MaxNames

\* The migrations of the universe that implement TransactionOption with
\* DisableTransaction() = true (the last name of the universe).
OptOut == {MaxNames}

VARIABLES
    migrations,   \* Registry.migrations: sequence of registered names
    table,        \* rows of the tracking table: records [name, batch]
    beforeHooks,  \* HookManager.beforeHooks: sequence of hook ids
    afterHooks,   \* HookManager.afterHooks: sequence of hook ids
    op,           \* the operation that has just returned ("none" when idle)
    arg,          \* its argument (steps of Rollback, name of Register)
    pre,          \* the tracking table when the operation began
    log,          \* the calls the operation made, in order
    err,          \* the error the operation returned
    seeders,      \* seeder Registry.seeders: name -> the names DependsOn() lists
    given,        \* what the collaborators handed to the operation that returned
    registry,     \* Registry.migrations with the implementations: records [Name, Migration]
    calls,        \* the Register calls made on registry: records [name, m, ok]
    grammar,      \* Migrator.grammar: nil or the grammar given to WithGrammar
    statuses,     \* the []MigrationStatus the operation returned
    manager,      \* database.Manager: its maps and the state of its RWMutex
    routines,     \* the goroutines calling Manager.Connection: position, name, result
    opens,        \* for each connection name, the outcomes of the driver.Open calls made
    blueprint,    \* the schema.Blueprint handed to the grammar
    compiled,     \* the Compile method last called, its grammar and what it returned
    executed      \* the Exec calls Builder.Alter made and the error it returned

vars == <<migrations, table, beforeHooks, afterHooks, op, arg, pre, log, err, seeders, given,
          registry, calls, grammar, statuses, manager, routines, opens,
          blueprint, compiled, executed>>

\* ---------------------------------------------------------------- errors
\* An error value: ok (nil or not), the sentinels/identities errors.Is
\* finds in its chain, the migration names its message quotes, and the
\* context labels added by wrapping, outermost first.
NoErr == [ok |-> TRUE, is |-> {}, names |-> {}, ctx |-> <<>>]

NewErr(id) == [ok |-> FALSE, is |-> {id}, names |-> {}, ctx |-> <<>>]

\* fmt.Errorf("<label> %q: %w", name, e): keeps the chain of e.
Wrap(label, ns, e) ==
    [ok |-> FALSE, is |-> e.is, names |-> e.names \cup ns, ctx |-> <<label>> \o e.ctx]

ErrTrackingTable == "ErrTrackingTable"
ErrTransactionFailed == "ErrTransactionFailed"
ErrMigrationNotFound == "ErrMigrationNotFound"
ErrDuplicateMigration == "ErrDuplicateMigration"
ErrInvalidMigrationName == "ErrInvalidMigrationName"

\* ---------------------------------------------------------------- events
Event(ev, name, dir, idx, batch, ok) ==
    [ev |-> ev, name |-> name, dir |-> dir, idx |-> idx, batch |-> batch, ok |-> ok]

\* How many times the call (ev, name, dir) was already made in this log.
Occ(lg, ev, name, dir) ==
    Cardinality({i \in DOMAIN lg : lg[i].ev = ev /\ lg[i].name = name /\ lg[i].dir = dir})

\* The call (ev, name, dir, idx) fails under fault set F.
Fails(F, ev, name, dir, idx) == <<ev, name, dir, idx>> \in F

\* ---------------------------------------------------------------- registry
\* sort.Search(len(s), func(i) { return s[i] >= name }), 1-based.
SearchIdx(s, name) ==
    IF \E i \in 1..Len(s) : s[i] >= name
    THEN CHOOSE i \in 1..Len(s) : s[i] >= name /\ \A j \in 1..(i-1) : s[j] < name
    ELSE Len(s) + 1

\* namePattern.MatchString: every name of the universe Names is a valid
\* timestamped name; anything else is invalid.
ValidName(name) == name \in Names

\* Variant of Register that appends instead of inserting in sorted order.
RegistryRegisterAppend(s, name) ==
    IF ~ValidName(name)
    THEN [migrations |-> s, err |-> Wrap("migration name", {name}, NewErr(ErrInvalidMigrationName))]
    ELSE IF \E i \in 1..Len(s) : s[i] = name
    THEN [migrations |-> s, err |-> Wrap("migration name", {name}, NewErr(ErrDuplicateMigration))]
    ELSE [migrations |-> Append(s, name), err |-> NoErr]

RegistryRegister(s, name) ==
    IF ~ValidName(name)
    THEN [migrations |-> s, err |-> Wrap("migration name", {name}, NewErr(ErrInvalidMigrationName))]
    ELSE IF \E i \in 1..Len(s) : s[i] = name
    THEN [migrations |-> s, err |-> Wrap("migration name", {name}, NewErr(ErrDuplicateMigration))]
    ELSE LET idx == SearchIdx(s, name)
         IN [migrations |-> SubSeq(s, 1, idx - 1) \o <<name>> \o SubSeq(s, idx, Len(s)),
             err |-> NoErr]

RegistryGetAll(s) == s

\* Registry.Get: found iff the search index holds the name.
RegistryGet(s, name) ==
    LET idx == SearchIdx(s, name)
    IN IF idx <= Len(s) /\ s[idx] = name
       THEN NoErr
       ELSE Wrap("migration name", {name}, NewErr(ErrMigrationNotFound))

DisableTransaction(name) == name \in OptOut

\* The Migration values handed to Register: two distinct implementations.
Implementations == {"m1", "m2"}

nil == "nil"

registeredMigration(name, m) == [Name |-> name, Migration |-> m]

\* The Name column of the slice.
RegistryNames(s) == [i \in DOMAIN s |-> s[i].Name]

\* Variant of Register that appends instead of inserting at the search index.
RegistryRegisterMigrationAppend(s, name, m) ==
    IF ~ValidName(name)
    THEN [migrations |-> s, err |-> Wrap("migration name", {name}, NewErr(ErrInvalidMigrationName))]
    ELSE IF \E i \in 1..Len(s) : s[i].Name = name
    THEN [migrations |-> s, err |-> Wrap("migration name", {name}, NewErr(ErrDuplicateMigration))]
    ELSE [migrations |-> Append(s, registeredMigration(name, m)), err |-> NoErr]

\* Variant of Register that stores the new implementation under a name
\* that is already registered before it reports the duplicate.
RegistryRegisterMigrationOverwrite(s, name, m) ==
    IF ~ValidName(name)
    THEN [migrations |-> s, err |-> Wrap("migration name", {name}, NewErr(ErrInvalidMigrationName))]
    ELSE IF \E i \in 1..Len(s) : s[i].Name = name
    THEN [migrations |-> [i \in DOMAIN s |->
                              IF s[i].Name = name THEN registeredMigration(name, m) ELSE s[i]],
          err |-> Wrap("migration name", {name}, NewErr(ErrDuplicateMigration))]
    ELSE LET idx == SearchIdx(RegistryNames(s), name)
         IN [migrations |-> SubSeq(s, 1, idx - 1) \o <<registeredMigration(name, m)>>
                                \o SubSeq(s, idx, Len(s)),
             err |-> NoErr]

\* Registry.Register(name, m) on the slice of registeredMigration values.
RegistryRegisterMigration(s, name, m) ==
    IF ~ValidName(name)
    THEN [migrations |-> s, err |-> Wrap("migration name", {name}, NewErr(ErrInvalidMigrationName))]
    ELSE IF \E i \in 1..Len(s) : s[i].Name = name
    THEN [migrations |-> s, err |-> Wrap("migration name", {name}, NewErr(ErrDuplicateMigration))]
    ELSE LET idx == SearchIdx(RegistryNames(s), name)
         IN [migrations |-> SubSeq(s, 1, idx - 1) \o <<registeredMigration(name, m)>>
                                \o SubSeq(s, idx, Len(s)),
             err |-> NoErr]

\* Registry.Get(name): the implementation at the search index, or nil and
\* MigrationNotFound.
RegistryGetMigration(s, name) ==
    LET idx == SearchIdx(RegistryNames(s), name)
    IN IF idx <= Len(s) /\ s[idx].Name = name
       THEN [Migration |-> s[idx].Migration, err |-> NoErr]
       ELSE [Migration |-> nil,
             err |-> Wrap("migration name", {name}, NewErr(ErrMigrationNotFound))]

\* Registry.Count()
RegistryCount(s) == Len(s)

\* ---------------------------------------------------------------- connection manager
\* Connection names are the naturals 1..MaxConns, 0 is the empty name.
ConnNames == 1..MaxConns

Routines == 1..MaxRoutines

\* The driver names RegisterDriver is called with.
DriverNames == {"postgres"}

\* The driver names a ConnectionConfig can carry: a registered one, one no
\* driver was registered under, and the missing one.
ConfigDrivers == DriverNames \cup {"mysql", ""}

ErrConnectionNotFound == "ErrConnectionNotFound"
ErrConnectionFailed == "ErrConnectionFailed"
ErrDriverNotFound == "ErrDriverNotFound"
ErrNoDefault == "ErrNoDefault"

\* The error db.Close() returns when it fails.
ErrClose == "ErrClose"

\* A *sql.DB: the k-th handle a driver opened for a name; NoHandle is nil.
Handle(name, k) == [name |-> name, serial |-> k]

NoHandle == Handle(0, 0)

\* NewManager(): empty maps, no default, the mutex free.
NewManager ==
    [connections |-> <<>>, configs |-> <<>>, drivers |-> {}, defaultName |-> 0,
     readers |-> 0, writer |-> FALSE]

\* A goroutine that is not inside Connection.
Idle == [pc |-> "idle", name |-> 0, db |-> NoHandle, err |-> NoErr]

\* m.mu.Lock() can be taken; m.mu.RLock() can be taken.
CanLock(m) == ~m.writer /\ m.readers = 0

CanRLock(m) == ~m.writer

\* RegisterDriver under the lock.
ManagerRegisterDriver(m, d) == [m EXCEPT !.drivers = @ \cup {d}]

\* AddConnection under the lock.
ManagerAddConnection(m, name, driver) ==
    IF driver = ""
    THEN [manager |-> m,
          err |-> [ok |-> FALSE, is |-> {}, names |-> {name}, ctx |-> <<"driver is required">>]]
    ELSE [manager |-> [m EXCEPT !.configs = (name :> driver) @@ @,
                                !.defaultName = IF @ = 0 THEN name ELSE @],
          err |-> NoErr]

\* SetDefault under the lock.
ManagerSetDefault(m, name) ==
    IF name \notin DOMAIN m.configs
    THEN [manager |-> m, err |-> Wrap("connection", {name}, NewErr(ErrConnectionNotFound))]
    ELSE [manager |-> [m EXCEPT !.defaultName = name], err |-> NoErr]

\* The loop of Close over the handles in the order the map yields them,
\* from the i-th on: the first db.Close() that fails is the error kept.
RECURSIVE CloseFrom(_, _, _, _)
CloseFrom(order, failing, i, firstErr) ==
    IF i > Len(order) THEN firstErr
    ELSE CloseFrom(order, failing, i + 1,
                   IF order[i] \in failing /\ firstErr.ok
                   THEN Wrap("closing connection", {order[i]}, NewErr(ErrClose))
                   ELSE firstErr)

\* Close under the lock: every handle is closed, the map is replaced by an
\* empty one, the first error is returned.
ManagerClose(m, order, failing) ==
    [manager |-> [m EXCEPT !.connections = <<>>],
     err |-> CloseFrom(order, failing, 1, NoErr)]

\* Variant of the locked part of Connection without the second look at the
\* cache.
ConnectionLockedNoDoubleCheck(m, name, ok, k) ==
    IF name \notin DOMAIN m.configs
    THEN [manager |-> m, db |-> NoHandle, opened |-> FALSE,
          err |-> Wrap("connection", {name}, NewErr(ErrConnectionNotFound))]
    ELSE IF m.configs[name] \notin m.drivers
    THEN [manager |-> m, db |-> NoHandle, opened |-> FALSE,
          err |-> Wrap("connection", {name}, NewErr(ErrDriverNotFound))]
    ELSE IF ~ok
    THEN [manager |-> m, db |-> NoHandle, opened |-> TRUE,
          err |-> Wrap("connection", {name}, NewErr(ErrConnectionFailed))]
    ELSE [manager |-> [m EXCEPT !.connections = (name :> Handle(name, k)) @@ @],
          db |-> Handle(name, k), opened |-> TRUE, err |-> NoErr]

\* The part of Connection that runs under the write lock: the second look
\* at the cache, the config and driver lookups, driver.Open (succeeding
\* iff ok, returning the k-th handle of the name) and the store.
ConnectionLocked(m, name, ok, k) ==
    IF name \in DOMAIN m.connections
    THEN [manager |-> m, db |-> m.connections[name], opened |-> FALSE, err |-> NoErr]
    ELSE IF name \notin DOMAIN m.configs
    THEN [manager |-> m, db |-> NoHandle, opened |-> FALSE,
          err |-> Wrap("connection", {name}, NewErr(ErrConnectionNotFound))]
    ELSE IF m.configs[name] \notin m.drivers
    THEN [manager |-> m, db |-> NoHandle, opened |-> FALSE,
          err |-> Wrap("connection", {name}, NewErr(ErrDriverNotFound))]
    ELSE IF ~ok
    THEN [manager |-> m, db |-> NoHandle, opened |-> TRUE,
          err |-> Wrap("connection", {name}, NewErr(ErrConnectionFailed))]
    ELSE [manager |-> [m EXCEPT !.connections = (name :> Handle(name, k)) @@ @],
          db |-> Handle(name, k), opened |-> TRUE, err |-> NoErr]

\* ---------------------------------------------------------------- tracker
RECURSIVE OrderByNameAsc(_)
OrderByNameAsc(rows) ==
    IF rows = {} THEN <<>>
    ELSE LET r == CHOOSE x \in rows : \A y \in rows : x.name <= y.name
         IN <<r>> \o OrderByNameAsc(rows \ {r})

\* SELECT ... ORDER BY migration ASC
TrackerGetApplied(tbl) == OrderByNameAsc(tbl)

\* SELECT ... WHERE batch = $1 ORDER BY migration ASC
TrackerGetByBatch(tbl, b) == OrderByNameAsc({r \in tbl : r.batch = b})

\* SELECT COALESCE(MAX(batch), 0)
TrackerGetLastBatchNumber(tbl) ==
    IF tbl = {} THEN 0
    ELSE LET r == CHOOSE x \in tbl : \A y \in tbl : x.batch >= y.batch IN r.batch

\* INSERT: the migration column is UNIQUE, a second row of a name is refused.
TrackerRecordOk(tbl, name) == ~\E r \in tbl : r.name = name

TrackerRecord(tbl, name, batch) == tbl \cup {[name |-> name, batch |-> batch]}

\* DELETE ... WHERE migration = $1
TrackerRemove(tbl, name) == {r \in tbl : r.name # name}

\* ---------------------------------------------------------------- running state
\* The state an operation threads through its steps: the tracking table,
\* the calls made so far and the error that ends the operation.
Start(tbl) == [table |-> tbl, log |-> <<>>, err |-> NoErr]

\* Sequencing of two steps: the value of the first step, then the rest
\* applied to it.
Bind(e, Rest(_)) == CHOOSE r \in {Rest(s) : s \in {e}} : TRUE

\* Sequencing with "if err != nil { return err }" in between.
Try(e, Rest(_)) == CHOOSE r \in {IF s.err.ok THEN Rest(s) ELSE s : s \in {e}} : TRUE

\* Sequencing with "if err != nil { return fmt.Errorf(label, name, err) }".
TryWrap(e, label, ns, Rest(_)) ==
    CHOOSE r \in {IF s.err.ok THEN Rest(s) ELSE [s EXCEPT !.err = Wrap(label, ns, s.err)] :
                  s \in {e}} : TRUE

\* A statement on the tracking table that reads or creates: logged, and
\* failing with a TrackingTableError under a fault.
TableCall(st, F, ev, label, batch) ==
    LET occ == Occ(st.log, ev, 0, "-") + 1
        bad == Fails(F, ev, 0, "-", occ)
    IN [table |-> st.table,
        log |-> Append(st.log, Event(ev, 0, "-", occ, batch, ~bad)),
        err |-> IF bad THEN Wrap(label, {}, NewErr(ErrTrackingTable)) ELSE NoErr]

EnsureTable(st, F) == TableCall(st, F, "EnsureTable", "ensure tracking table", 0)

\* A SELECT of records: db.Query fails under a fault; rows.Scan fails under
\* a fault when there is a row to scan; rows.Err() fails under a fault after
\* the loop. Each failure is a TrackingTableError under its own label, and
\* the event of a failed read carries the stage that failed.
RowsCall(st, F, ev, label, batch, rows) ==
    LET occ == Cardinality({i \in DOMAIN st.log : st.log[i].ev = ev}) + 1
        query == Fails(F, ev, 0, "-", occ)
        scan == rows # {} /\ Fails(F, ev, 0, "scan", occ)
        iterate == Fails(F, ev, 0, "iterate", occ)
        bad == query \/ scan \/ iterate
        stage == IF query \/ ~bad THEN "-" ELSE IF scan THEN "scan" ELSE "iterate"
        failed == IF query THEN label
                  ELSE IF scan THEN "scan migration record"
                  ELSE "iterate migration records"
    IN [table |-> st.table,
        log |-> Append(st.log, Event(ev, 0, stage, occ, batch, ~bad)),
        err |-> IF bad THEN Wrap(failed, {}, NewErr(ErrTrackingTable)) ELSE NoErr]

GetApplied(st, F) == RowsCall(st, F, "GetApplied", "get applied migrations", 0, st.table)

GetLastBatchNumber(st, F) == TableCall(st, F, "GetLastBatchNumber", "get last batch number", 0)

GetByBatch(st, F, b) ==
    RowsCall(st, F, "GetByBatch", "get migrations for batch", b,
             {r \in st.table : r.batch = b})

\* Tracker.Record: the INSERT fails under a fault or on a duplicate name.
Record(st, F, name, batch) ==
    LET bad == Fails(F, "Record", name, "up", 1) \/ ~TrackerRecordOk(st.table, name)
    IN [table |-> IF bad THEN st.table ELSE TrackerRecord(st.table, name, batch),
        log |-> Append(st.log, Event("Record", name, "up", 1, batch, ~bad)),
        err |-> IF bad THEN Wrap("record migration", {name}, NewErr(ErrTrackingTable)) ELSE NoErr]

\* Tracker.Remove: the DELETE fails under a fault.
Remove(st, F, name) ==
    LET bad == Fails(F, "Remove", name, "down", 1)
    IN [table |-> IF bad THEN st.table ELSE TrackerRemove(st.table, name),
        log |-> Append(st.log, Event("Remove", name, "down", 1, 0, ~bad)),
        err |-> IF bad THEN Wrap("remove migration", {name}, NewErr(ErrTrackingTable)) ELSE NoErr]

\* ---------------------------------------------------------------- batch manager
\* Variant of NextBatchNumber that formats the tracker's error into a new
\* error instead of wrapping it.
NextBatchNumberOpaque(st, F) ==
    Bind(GetLastBatchNumber(st, F), LAMBDA s :
        IF s.err.ok THEN s
        ELSE [s EXCEPT !.err = [ok |-> FALSE, is |-> {}, names |-> {},
                                ctx |-> <<"next batch number">> \o s.err.ctx]])

NextBatchNumber(st, F) ==
    TryWrap(GetLastBatchNumber(st, F), "next batch number", {}, LAMBDA s : s)

\* Variant of NextBatchNumber that reuses the last batch number.
NextBatchValueSame(tbl) == TrackerGetLastBatchNumber(tbl)

\* Variant of the next batch number that numbers the first batch 0.
NextBatchValueZeroBased(tbl) ==
    IF tbl = {} THEN 0 ELSE TrackerGetLastBatchNumber(tbl) + 1

\* The value NextBatchNumber returns on success.
NextBatchValue(tbl) == TrackerGetLastBatchNumber(tbl) + 1

\* The result of a BatchManager query: the running state and the records.
Got(st, records) == [st |-> st, records |-> records]

\* GetLastBatch: nil when the last batch number is 0, else its records.
GetLastBatch(st, F) ==
    Bind(GetLastBatchNumber(st, F), LAMBDA s1 :
        IF ~s1.err.ok
        THEN Got([s1 EXCEPT !.err = Wrap("get last batch", {}, s1.err)], <<>>)
        ELSE LET last == TrackerGetLastBatchNumber(s1.table)
             IN IF last = 0
                THEN Got(s1, <<>>)
                ELSE Bind(GetByBatch(s1, F, last), LAMBDA s2 :
                        IF ~s2.err.ok
                        THEN Got([s2 EXCEPT !.err = Wrap("get last batch", {}, s2.err)], <<>>)
                        ELSE Got(s2, TrackerGetByBatch(s2.table, last))))

\* Variant of GetLastNMigrations that keeps the tail in ascending order.
GetLastNMigrationsAscending(st, F, n) ==
    IF n <= 0
    THEN Got(st, <<>>)
    ELSE Bind(GetApplied(st, F), LAMBDA s1 :
            IF ~s1.err.ok
            THEN Got([s1 EXCEPT !.err = Wrap("get last migrations", {}, s1.err)], <<>>)
            ELSE Bind(TrackerGetApplied(s1.table), LAMBDA applied :
                    LET m == IF n > Len(applied) THEN Len(applied) ELSE n
                    IN Got(s1, [i \in 1..m |-> applied[Len(applied) - m + i]])))

\* GetLastNMigrations: result[i] = applied[len-1-i] for i < min(n, len).
GetLastNMigrations(st, F, n) ==
    IF n <= 0
    THEN Got(st, <<>>)
    ELSE Bind(GetApplied(st, F), LAMBDA s1 :
            IF ~s1.err.ok
            THEN Got([s1 EXCEPT !.err = Wrap("get last migrations", {}, s1.err)], <<>>)
            ELSE Bind(TrackerGetApplied(s1.table), LAMBDA applied :
                    LET m == IF n > Len(applied) THEN Len(applied) ELSE n
                    IN Got(s1, [i \in 1..m |-> applied[Len(applied) + 1 - i]])))

\* reverseRecords
reverseRecords(records) == [i \in 1..Len(records) |-> records[Len(records) + 1 - i]]

\* ---------------------------------------------------------------- hooks
\* One before-hook call: logged, an error under a fault.
BeforeCall(st, F, hook, name, dir) ==
    LET bad == Fails(F, "before", name, dir, hook)
    IN [st EXCEPT !.log = Append(@, Event("before", name, dir, hook, 0, ~bad)),
                  !.err = IF bad THEN NewErr("hook") ELSE NoErr]

\* Variant of RunBefore that goes on with the next hook after an error.
RECURSIVE RunBeforeNoStop(_, _, _, _, _, _)
RunBeforeNoStop(st, F, bh, i, name, dir) ==
    IF i > Len(bh) THEN st
    ELSE Bind(BeforeCall(st, F, bh[i], name, dir), LAMBDA s :
            RunBeforeNoStop(s, F, bh, i + 1, name, dir))

\* RunBefore: hooks in registration order, the first error stops and returns.
RECURSIVE RunBeforeFrom(_, _, _, _, _, _)
RunBeforeFrom(st, F, bh, i, name, dir) ==
    IF i > Len(bh) THEN st
    ELSE Try(BeforeCall(st, F, bh[i], name, dir), LAMBDA s :
            RunBeforeFrom(s, F, bh, i + 1, name, dir))

RunBefore(st, F, bh, name, dir) == RunBeforeFrom(st, F, bh, 1, name, dir)

\* Variant of the after-hook call whose error ends the operation.
AfterCallPropagates(st, F, hook, name, dir) ==
    LET bad == Fails(F, "after", name, dir, hook)
    IN [st EXCEPT !.log = Append(@, Event("after", name, dir, hook, 0, ~bad)),
                  !.err = IF bad THEN NewErr("hook") ELSE NoErr]

\* One after-hook call: logged, its error discarded.
AfterCall(st, F, hook, name, dir) ==
    LET bad == Fails(F, "after", name, dir, hook)
    IN [st EXCEPT !.log = Append(@, Event("after", name, dir, hook, 0, ~bad))]

\* RunAfter: every hook runs, errors are discarded, nil is returned.
RECURSIVE RunAfterFrom(_, _, _, _, _, _)
RunAfterFrom(st, F, ah, i, name, dir) ==
    IF i > Len(ah) THEN st
    ELSE Bind(AfterCall(st, F, ah[i], name, dir), LAMBDA s :
            RunAfterFrom(s, F, ah, i + 1, name, dir))

RunAfter(st, F, ah, name, dir) == RunAfterFrom(st, F, ah, 1, name, dir)

\* ---------------------------------------------------------------- runner
\* runMigration: the body of the migration in the given direction.
runMigration(st, F, name, dir) ==
    LET bad == Fails(F, "body", name, dir, 1)
    IN IF dir \notin {"up", "down"}
       THEN [st EXCEPT !.err = NewErr("unknown migration direction")]
       ELSE [st EXCEPT !.log = Append(@, Event("body", name, dir, 1, 0, ~bad)),
                       !.err = IF bad THEN NewErr("body") ELSE NoErr]

\* Begin, Commit or Rollback of the transaction of one execution.
TxCall(st, F, ev, name, dir) ==
    LET occ == Occ(st.log, ev, name, dir) + 1
        bad == Fails(F, ev, name, dir, occ)
    IN [st EXCEPT !.log = Append(@, Event(ev, name, dir, occ, 0, ~bad)),
                  !.err = IF bad THEN NewErr("driver") ELSE NoErr]

\* Variant of ExecuteInTransaction that returns the error of a failed
\* Rollback in place of the error that caused the rollback.
ExecuteInTransactionRollbackError(st, F, name, dir) ==
    TryWrap(TxCall(st, F, "Begin", name, dir), "begin transaction", {}, LAMBDA s1 :
        Bind(runMigration(s1, F, name, dir), LAMBDA s2 :
            IF ~s2.err.ok
            THEN Bind(TxCall(s2, F, "Rollback", name, dir), LAMBDA s3 :
                    IF ~s3.err.ok
                    THEN [s3 EXCEPT !.err = Wrap("rollback after migration error", {}, s3.err)]
                    ELSE [s3 EXCEPT !.err = s2.err])
            ELSE Bind(TxCall(s2, F, "Commit", name, dir), LAMBDA s4 :
                    IF ~s4.err.ok
                    THEN Bind(TxCall(s4, F, "Rollback", name, dir), LAMBDA s5 :
                            IF ~s5.err.ok
                            THEN [s5 EXCEPT !.err = Wrap("rollback after commit failure", {},
                                                        NewErr(ErrTransactionFailed))]
                            ELSE [s5 EXCEPT !.err = Wrap("commit", {},
                                                        NewErr(ErrTransactionFailed))])
                    ELSE s4)))

\* Variant of ExecuteInTransaction that returns the driver's error of a
\* failed Commit.
ExecuteInTransactionCommitError(st, F, name, dir) ==
    TryWrap(TxCall(st, F, "Begin", name, dir), "begin transaction", {}, LAMBDA s1 :
        Bind(runMigration(s1, F, name, dir), LAMBDA s2 :
            IF ~s2.err.ok
            THEN Bind(TxCall(s2, F, "Rollback", name, dir), LAMBDA s3 :
                    IF ~s3.err.ok
                    THEN [s3 EXCEPT !.err = Wrap("rollback after migration error", {}, s2.err)]
                    ELSE [s3 EXCEPT !.err = s2.err])
            ELSE Bind(TxCall(s2, F, "Commit", name, dir), LAMBDA s4 :
                    IF ~s4.err.ok
                    THEN Bind(TxCall(s4, F, "Rollback", name, dir), LAMBDA s5 :
                            IF ~s5.err.ok
                            THEN [s5 EXCEPT !.err = Wrap("rollback after commit failure", {}, s5.err)]
                            ELSE [s5 EXCEPT !.err = Wrap("commit", {}, s4.err)])
                    ELSE s4)))

\* Variant of ExecuteInTransaction that returns the error of the body
\* without rolling the transaction back.
ExecuteInTransactionNoRollback(st, F, name, dir) ==
    TryWrap(TxCall(st, F, "Begin", name, dir), "begin transaction", {}, LAMBDA s1 :
        Bind(runMigration(s1, F, name, dir), LAMBDA s2 :
            IF ~s2.err.ok
            THEN s2
            ELSE Bind(TxCall(s2, F, "Commit", name, dir), LAMBDA s4 :
                    IF ~s4.err.ok
                    THEN Bind(TxCall(s4, F, "Rollback", name, dir), LAMBDA s5 :
                            IF ~s5.err.ok
                            THEN [s5 EXCEPT !.err = Wrap("rollback after commit failure", {},
                                                        NewErr(ErrTransactionFailed))]
                            ELSE [s5 EXCEPT !.err = Wrap("commit", {},
                                                        NewErr(ErrTransactionFailed))])
                    ELSE s4)))

ExecuteInTransaction(st, F, name, dir) ==
    TryWrap(TxCall(st, F, "Begin", name, dir), "begin transaction", {}, LAMBDA s1 :
        Bind(runMigration(s1, F, name, dir), LAMBDA s2 :
            IF ~s2.err.ok
            THEN Bind(TxCall(s2, F, "Rollback", name, dir), LAMBDA s3 :
                    IF ~s3.err.ok
                    THEN [s3 EXCEPT !.err = Wrap("rollback after migration error", {}, s2.err)]
                    ELSE [s3 EXCEPT !.err = s2.err])
            ELSE Bind(TxCall(s2, F, "Commit", name, dir), LAMBDA s4 :
                    IF ~s4.err.ok
                    THEN Bind(TxCall(s4, F, "Rollback", name, dir), LAMBDA s5 :
                            IF ~s5.err.ok
                            THEN [s5 EXCEPT !.err = Wrap("rollback after commit failure", {},
                                                        NewErr(ErrTransactionFailed))]
                            ELSE [s5 EXCEPT !.err = Wrap("commit", {},
                                                        NewErr(ErrTransactionFailed))])
                    ELSE s4)))

executeWithoutTransaction(st, F, name, dir) == runMigration(st, F, name, dir)

\* Variant of Execute that never looks at DisableTransaction.
ExecuteAlwaysInTransaction(st, F, name, dir) == ExecuteInTransaction(st, F, name, dir)

Execute(st, F, name, dir) ==
    IF DisableTransaction(name)
    THEN executeWithoutTransaction(st, F, name, dir)
    ELSE ExecuteInTransaction(st, F, name, dir)

\* ---------------------------------------------------------------- migrator
\* Variant of the iteration of Up that records before it executes.
UpOneRecordFirst(st, F, bh, ah, name, batchNumber) ==
    TryWrap(RunBefore(st, F, bh, name, "up"), "before hook for", {name}, LAMBDA s1 :
        Try(Record(s1, F, name, batchNumber), LAMBDA s2 :
            TryWrap(Execute(s2, F, name, "up"), "migration up", {name}, LAMBDA s3 :
                RunAfter(s3, F, ah, name, "up"))))

\* One iteration of the loop of Up over a pending migration.
UpOne(st, F, bh, ah, name, batchNumber) ==
    TryWrap(RunBefore(st, F, bh, name, "up"), "before hook for", {name}, LAMBDA s1 :
        TryWrap(Execute(s1, F, name, "up"), "migration up", {name}, LAMBDA s2 :
            Try(Record(s2, F, name, batchNumber), LAMBDA s3 :
                RunAfter(s3, F, ah, name, "up"))))

\* Variant of the loop of Up that goes on after a failed migration.
RECURSIVE UpLoopNoStop(_, _, _, _, _, _, _)
UpLoopNoStop(st, F, bh, ah, pending, i, batchNumber) ==
    IF i > Len(pending) THEN st
    ELSE Bind(UpOne([st EXCEPT !.err = NoErr], F, bh, ah, pending[i], batchNumber), LAMBDA s :
            UpLoopNoStop(s, F, bh, ah, pending, i + 1, batchNumber))

\* The loop of Up from the i-th pending migration on.
RECURSIVE UpLoop(_, _, _, _, _, _, _)
UpLoop(st, F, bh, ah, pending, i, batchNumber) ==
    IF i > Len(pending) THEN st
    ELSE Try(UpOne(st, F, bh, ah, pending[i], batchNumber), LAMBDA s :
            UpLoop(s, F, bh, ah, pending, i + 1, batchNumber))

\* The pending migrations: registered, in registry order, without a record.
Pending(reg, tbl) ==
    LET applied == TrackerGetApplied(tbl)
        appliedSet == {applied[i].name : i \in DOMAIN applied}
        NotApplied(n) == n \notin appliedSet
    IN SelectSeq(RegistryGetAll(reg), NotApplied)

\* Variant of Up that allocates the batch number before it looks for
\* pending migrations.
MigratorUpEager(st, F, reg, bh, ah) ==
    Try(EnsureTable(st, F), LAMBDA s1 :
        Try(GetApplied(s1, F), LAMBDA s2 :
            Bind(Pending(reg, s2.table), LAMBDA pending :
                Try(NextBatchNumber(s2, F), LAMBDA s3 :
                    UpLoop(s3, F, bh, ah, pending, 1, NextBatchValue(s3.table))))))

MigratorUp(st, F, reg, bh, ah) ==
    Try(EnsureTable(st, F), LAMBDA s1 :
        Try(GetApplied(s1, F), LAMBDA s2 :
            Bind(Pending(reg, s2.table), LAMBDA pending :
                IF Len(pending) = 0 THEN s2
                ELSE Try(NextBatchNumber(s2, F), LAMBDA s3 :
                        UpLoop(s3, F, bh, ah, pending, 1, NextBatchValue(s3.table))))))

\* Variant of the lookup that finds every name.
GetCallFound(st, reg, name) ==
    [st EXCEPT !.log = Append(@, Event("Get", name, "down", 1, 0, TRUE)),
               !.err = NoErr]

\* m.registry.Get(rec.Name): logged, NotFound when the name is not registered.
GetCall(st, reg, name) ==
    LET found == RegistryGet(reg, name)
    IN [st EXCEPT !.log = Append(@, Event("Get", name, "down", 1, 0, found.ok)),
                  !.err = found]

\* One iteration of the loop of Rollback over a record.
RollbackOne(st, F, reg, bh, ah, name) ==
    Try(GetCall(st, reg, name), LAMBDA s0 :
        TryWrap(RunBefore(s0, F, bh, name, "down"), "before hook for", {name}, LAMBDA s1 :
            TryWrap(Execute(s1, F, name, "down"), "migration down", {name}, LAMBDA s2 :
                Try(Remove(s2, F, name), LAMBDA s3 :
                    RunAfter(s3, F, ah, name, "down")))))

\* Variant of the loop of Rollback that goes on after a failed migration.
RECURSIVE RollbackLoopNoStop(_, _, _, _, _, _, _)
RollbackLoopNoStop(st, F, reg, bh, ah, records, i) ==
    IF i > Len(records) THEN st
    ELSE Bind(RollbackOne([st EXCEPT !.err = NoErr], F, reg, bh, ah, records[i].name),
              LAMBDA s : RollbackLoopNoStop(s, F, reg, bh, ah, records, i + 1))

\* The loop of Rollback from the i-th record on.
RECURSIVE RollbackLoop(_, _, _, _, _, _, _)
RollbackLoop(st, F, reg, bh, ah, records, i) ==
    IF i > Len(records) THEN st
    ELSE Try(RollbackOne(st, F, reg, bh, ah, records[i].name), LAMBDA s :
            RollbackLoop(s, F, reg, bh, ah, records, i + 1))

\* Variant of Rollback that does not reverse the records of the last batch.
MigratorRollbackNoReverse(st, F, reg, bh, ah, steps) ==
    Try(EnsureTable(st, F), LAMBDA s1 :
        Bind(IF steps = 0 THEN GetLastBatch(s1, F) ELSE GetLastNMigrations(s1, F, steps),
             LAMBDA got :
                IF ~got.st.err.ok THEN got.st
                ELSE IF Len(got.records) = 0 THEN got.st
                ELSE RollbackLoop(got.st, F, reg, bh, ah, got.records, 1)))

MigratorRollback(st, F, reg, bh, ah, steps) ==
    Try(EnsureTable(st, F), LAMBDA s1 :
        Bind(IF steps = 0 THEN GetLastBatch(s1, F) ELSE GetLastNMigrations(s1, F, steps),
             LAMBDA got :
                IF ~got.st.err.ok THEN got.st
                ELSE IF Len(got.records) = 0 THEN got.st
                ELSE Bind(IF steps = 0 THEN reverseRecords(got.records) ELSE got.records,
                          LAMBDA records : RollbackLoop(got.st, F, reg, bh, ah, records, 1))))

\* One iteration of the loop of Reset over a record.
ResetOne(st, F, reg, ah, name) ==
    Try(GetCall(st, reg, name), LAMBDA s0 :
        TryWrap(Execute(s0, F, name, "down"), "migration down", {name}, LAMBDA s2 :
            Try(Remove(s2, F, name), LAMBDA s3 :
                RunAfter(s3, F, ah, name, "down"))))

\* The loop of Reset from the i-th record on.
RECURSIVE ResetLoop(_, _, _, _, _, _)
ResetLoop(st, F, reg, ah, records, i) ==
    IF i > Len(records) THEN st
    ELSE Try(ResetOne(st, F, reg, ah, records[i].name), LAMBDA s :
            ResetLoop(s, F, reg, ah, records, i + 1))

\* Variant of Reset that does not reverse the applied records.
MigratorResetNoReverse(st, F, reg, ah) ==
    Try(EnsureTable(st, F), LAMBDA s1 :
        Try(GetApplied(s1, F), LAMBDA s2 :
            Bind(TrackerGetApplied(s2.table), LAMBDA applied :
                ResetLoop(s2, F, reg, ah, applied, 1))))

MigratorReset(st, F, reg, ah) ==
    Try(EnsureTable(st, F), LAMBDA s1 :
        Try(GetApplied(s1, F), LAMBDA s2 :
            Bind(reverseRecords(TrackerGetApplied(s2.table)), LAMBDA applied :
                ResetLoop(s2, F, reg, ah, applied, 1))))

\* Variant of Refresh that skips the reset phase.
MigratorRefreshUpOnly(st, F, reg, bh, ah) ==
    TryWrap(MigratorUp(st, F, reg, bh, ah), "refresh up phase", {}, LAMBDA u : u)

\* Variant of Refresh that goes on to Up when Reset failed.
MigratorRefreshUpAfterFailedReset(st, F, reg, bh, ah) ==
    Bind(MigratorReset(st, F, reg, ah), LAMBDA r :
        TryWrap(MigratorUp([r EXCEPT !.err = NoErr], F, reg, bh, ah),
                "refresh up phase", {}, LAMBDA u : u))

MigratorRefresh(st, F, reg, bh, ah) ==
    TryWrap(MigratorReset(st, F, reg, ah), "refresh reset phase", {}, LAMBDA r :
        TryWrap(MigratorUp(r, F, reg, bh, ah), "refresh up phase", {}, LAMBDA u : u))

\* The grammars of the repository.
Grammars == {"postgres", "mysql", "sqlite"}

\* Grammar.CompileDropAllTables() of each grammar.
CompileDropAllTables(g) ==
    CASE g = "postgres" -> "DROP SCHEMA public CASCADE; CREATE SCHEMA public"
      [] g = "mysql" -> "SET FOREIGN_KEY_CHECKS = 0"
      [] g = "sqlite" ->
            "SELECT name FROM sqlite_master WHERE type='table' AND name NOT LIKE 'sqlite_%'"

\* What executing a drop-all statement does to the rows of the tracking
\* table: dropping the schema drops the table with its rows; setting a
\* session variable or selecting the table names drops nothing.
ExecOnTable(sql, tbl) ==
    IF sql = "DROP SCHEMA public CASCADE; CREATE SCHEMA public" THEN {} ELSE tbl

\* m.db.Exec(dropSQL): logged, failing with the driver's error under a fault.
ExecDropAll(st, F, g) ==
    LET bad == Fails(F, "DropAll", 0, "-", 1)
    IN [table |-> IF bad THEN st.table ELSE ExecOnTable(CompileDropAllTables(g), st.table),
        log |-> Append(st.log, Event("DropAll", 0, "-", 1, 0, ~bad)),
        err |-> IF bad THEN NewErr("driver") ELSE NoErr]

\* fmt.Errorf("fresh requires a grammar: configure with WithGrammar")
ErrFreshRequiresGrammar ==
    [ok |-> FALSE, is |-> {}, names |-> {}, ctx |-> <<"fresh requires a grammar">>]

\* Variant of Fresh that goes on to Up when the drop statement failed.
MigratorFreshIgnoringDropError(st, F, g, reg, bh, ah) ==
    IF g = nil THEN [st EXCEPT !.err = ErrFreshRequiresGrammar]
    ELSE Bind(ExecDropAll(st, F, g), LAMBDA s :
            MigratorUp([s EXCEPT !.err = NoErr], F, reg, bh, ah))

MigratorFresh(st, F, g, reg, bh, ah) ==
    IF g = nil THEN [st EXCEPT !.err = ErrFreshRequiresGrammar]
    ELSE TryWrap(ExecDropAll(st, F, g), "drop all tables", {}, LAMBDA s :
            MigratorUp(s, F, reg, bh, ah))

\* A nil *time.Time; the timestamps of the records are positive.
NilTime == 0

\* The created_at column of a record: the stored timestamp, and for a row
\* written by Tracker.Record, whose INSERT leaves the column to its
\* DEFAULT CURRENT_TIMESTAMP, the time DefaultTime of the database clock.
DefaultTime == 1

CreatedAt(rec) == IF "at" \in DOMAIN rec THEN rec.at ELSE DefaultTime

MigrationStatus(name, applied, batch, at) ==
    [Name |-> name, Applied |-> applied, Batch |-> batch, AppliedAt |-> at]

\* appliedMap: for each name of the applied records, the last record of
\* that name in the list.
AppliedMap(applied) ==
    [n \in {applied[i].name : i \in DOMAIN applied} |->
        applied[CHOOSE i \in DOMAIN applied :
                    applied[i].name = n /\ \A j \in DOMAIN applied : applied[j].name = n => j <= i]]

\* Variant of the status list with one entry per applied record.
StatusListByRecord(reg, applied) ==
    [i \in DOMAIN applied |->
        MigrationStatus(applied[i].name, TRUE, applied[i].batch, CreatedAt(applied[i]))]

\* The status list Status builds from the registered names and the applied
\* records.
StatusList(reg, applied) ==
    [i \in DOMAIN reg |->
        IF reg[i] \in DOMAIN AppliedMap(applied)
        THEN MigrationStatus(reg[i], TRUE, AppliedMap(applied)[reg[i]].batch,
                             CreatedAt(AppliedMap(applied)[reg[i]]))
        ELSE MigrationStatus(reg[i], FALSE, 0, NilTime)]

\* Migrator.Status: the statements it runs; the list is StatusList when
\* they succeed and nil otherwise.
MigratorStatus(st, F) ==
    Try(EnsureTable(st, F), LAMBDA s1 : GetApplied(s1, F))

MigratorStatusList(res, reg) ==
    IF res.err.ok THEN StatusList(RegistryGetAll(reg), TrackerGetApplied(res.table)) ELSE <<>>

\* ---------------------------------------------------------------- inputs
\* The fault sets an operation is run with. A fault is the signature
\* <<call, name, direction, index>> of a call that fails. Every call but an
\* after-hook ends the operation when it fails, and after a failed body or
\* commit only the transaction's Rollback is still called; so the fault
\* sets are: none, one failing call, and a failing body or commit together
\* with the failing Rollback that follows it.
TablePoints(evs, occs) ==
    {<<ev, 0, "-", i>> : ev \in evs, i \in occs}
    \cup {<<ev, 0, stage, i>> : ev \in evs \cap {"GetApplied", "GetByBatch"},
                                stage \in {"scan", "iterate"}, i \in occs}

\* The calls made for migration n in direction d with the hooks bh, ah.
NamePoints(n, d, bh, ah) ==
    {<<"body", n, d, 1>>}
    \cup (IF DisableTransaction(n) THEN {} ELSE {<<"Begin", n, d, 1>>, <<"Commit", n, d, 1>>})
    \cup (IF d = "up" THEN {<<"Record", n, d, 1>>} ELSE {<<"Remove", n, d, 1>>})
    \cup {<<"before", n, d, bh[i]>> : i \in DOMAIN bh}
    \cup {<<"after", n, d, ah[i]>> : i \in DOMAIN ah}

\* A failing body or commit of a transaction whose Rollback fails as well.
RollbackPairs(ns, d) ==
    {{<<ev, n, d, 1>>, <<"Rollback", n, d, 1>>} :
        ev \in {"body", "Commit"}, n \in {m \in ns : ~DisableTransaction(m)}}

FaultSets(tablePoints, upNames, downNames, bh, ah) ==
    {{}}
    \cup {{p} : p \in tablePoints}
    \cup {{p} : p \in UNION {NamePoints(n, "up", bh, ah) : n \in upNames}}
    \cup {{p} : p \in UNION {NamePoints(n, "down", bh, ah) : n \in downNames}}
    \cup RollbackPairs(upNames, "up")
    \cup RollbackPairs(downNames, "down")

\* The names that have a record in a table, and the registered names.
RecordedNames(tbl) == {r.name : r \in tbl}

RegisteredNames(reg) == {reg[i] : i \in DOMAIN reg}

UpFaults ==
    FaultSets(TablePoints({"EnsureTable", "GetApplied", "GetLastBatchNumber"}, {1}),
              RegisteredNames(migrations) \ RecordedNames(table), {}, beforeHooks, afterHooks)

RollbackFaults(steps) ==
    FaultSets(TablePoints(IF steps = 0 THEN {"EnsureTable", "GetLastBatchNumber", "GetByBatch"}
                          ELSE {"EnsureTable", "GetApplied"}, {1}),
              {}, RecordedNames(table), beforeHooks, afterHooks)

ResetFaults ==
    FaultSets(TablePoints({"EnsureTable", "GetApplied"}, {1}),
              {}, RecordedNames(table), <<>>, afterHooks)

RefreshFaults ==
    FaultSets(TablePoints({"EnsureTable", "GetApplied"}, {1, 2})
                  \cup TablePoints({"GetLastBatchNumber"}, {1}),
              RegisteredNames(migrations), RecordedNames(table), beforeHooks, afterHooks)

\* The step counts Rollback is called with: negative, zero, and positive up
\* to one more than the number of records (larger counts are clamped alike).
StepCounts == (0 - 1)..(Cardinality(table) + 1)

\* ---------------------------------------------------------------- schema
\* ColumnType and the text ColumnType.String() gives for it; every value
\* that is none of the twelve constants prints as "unknown".
TypeString == "string"
TypeText == "text"
TypeInteger == "integer"
TypeBigInteger == "bigInteger"
TypeBoolean == "boolean"
TypeTimestamp == "timestamp"
TypeDate == "date"
TypeDecimal == "decimal"
TypeFloat == "float"
TypeUUID == "uuid"
TypeJSON == "json"
TypeBinary == "binary"
TypeUnknown == "unknown"

ColumnTypes ==
    {TypeString, TypeText, TypeInteger, TypeBigInteger, TypeBoolean, TypeTimestamp,
     TypeDate, TypeDecimal, TypeFloat, TypeUUID, TypeJSON, TypeBinary}

\* Blueprint.addColumn: a ColumnDefinition with its zero values. The
\* The values a DefaultValue (an interface{}) holds, with their dynamic type.
IntValue(n) == [kind |-> "int", int |-> n, bool |-> FALSE, string |-> ""]

BoolValue(b) == [kind |-> "bool", int |-> 0, bool |-> b, string |-> ""]

StringValue(s) == [kind |-> "string", int |-> 0, bool |-> FALSE, string |-> s]

\* DefaultValue is <<>> for nil and <<v>> for the value v.
addColumn(name, colType) ==
    [Name |-> name, Type |-> colType, Length |-> 0, Precision |-> 0, Scale |-> 0,
     IsNullable |-> FALSE, DefaultValue |-> <<>>, IsPrimary |-> FALSE, IsUnique |-> FALSE,
     IsUnsigned |-> FALSE, IsAutoIncrement |-> FALSE]

\* Blueprint.String(name, length)
BlueprintString(name, length) == [addColumn(name, TypeString) EXCEPT !.Length = length]

\* Blueprint.Decimal(name, precision, scale)
BlueprintDecimal(name, precision, scale) ==
    [addColumn(name, TypeDecimal) EXCEPT !.Precision = precision, !.Scale = scale]

\* The table every blueprint of the model is for.
TableName == "t"

\* NewBlueprint(table)
NewBlueprint(tbl) ==
    [table |-> tbl, columns |-> <<>>, indexes |-> <<>>, foreignKeys |-> <<>>, commands |-> <<>>]

\* strings.Join(ss, sep) on strings.
RECURSIVE JoinStrings(_, _)
JoinStrings(ss, sep) ==
    IF ss = <<>> THEN ""
    ELSE IF Len(ss) = 1 THEN ss[1]
    ELSE ss[1] \o sep \o JoinStrings(Tail(ss), sep)

\* Blueprint.generateIndexName(columns, unique)
generateIndexName(tbl, columns, unique) ==
    (IF unique THEN "uniq" ELSE "idx") \o "_" \o tbl
        \o JoinStrings([i \in DOMAIN columns |-> "_" \o columns[i]], "")

\* Blueprint.Index(columns...) and Blueprint.UniqueIndex(columns...)
IndexDefinition(tbl, columns, unique) ==
    [Name |-> generateIndexName(tbl, columns, unique), Columns |-> columns, Unique |-> unique]

\* Blueprint.Foreign(column).References(refColumn).On(refTable), with the
\* ON DELETE action onDelete ("" for none).
Foreign(tbl, column, refColumn, refTable, onDelete) ==
    [Column |-> column, RefTable |-> refTable, RefColumn |-> refColumn,
     OnDelete |-> onDelete, OnUpdate |-> "", Name |-> "fk_" \o tbl \o "_" \o column]

CommandDropColumn == "DropColumn"
CommandRenameColumn == "RenameColumn"
CommandDropIndex == "DropIndex"
CommandDropForeign == "DropForeign"

\* Blueprint.DropColumn, RenameColumn, DropIndex, DropForeign
Command(type, name, to) == [Type |-> type, Name |-> name, To |-> to]

\* ---------------------------------------------------------------- grammars
ErrUnsupportedType == "ErrUnsupportedType"

\* An error of the schema package: the sentinels errors.Is finds, the
\* column its message names, and the statement whose execution it is
\* the failure of (0 for none).
SchemaErr(is, column, at) == [is |-> is, column |-> column, at |-> at]

NoSchemaErr == SchemaErr({}, "", 0)

\* What a Compile method returns: the clauses it assembled (each a
\* sequence of words), the statements it returns, and its error.
Compiled(parts, stmts) == [ok |-> TRUE, parts |-> parts, stmts |-> stmts, err |-> NoSchemaErr]

CompileFailed(e) == [ok |-> FALSE, parts |-> <<>>, stmts |-> <<>>, err |-> e]

\* The backtick of mysqlQuote: a character a string of the model cannot
\* hold, written as a circumflex.
Backtick == "^"

\* quote and mysqlQuote
quote(g, name) ==
    IF g = "mysql" THEN Backtick \o name \o Backtick ELSE "\"" \o name \o "\""

\* quoteSlice and mysqlQuoteSlice
quoteSlice(g, names) == [i \in DOMAIN names |-> quote(g, names[i])]

\* strings.ReplaceAll(s, "'", "''")
RECURSIVE DoubleQuotes(_)
DoubleQuotes(s) ==
    IF Len(s) = 0 THEN ""
    ELSE (IF SubSeq(s, 1, 1) = "'" THEN "''" ELSE SubSeq(s, 1, 1))
         \o DoubleQuotes(SubSeq(s, 2, Len(s)))

\* formatDefault: a string between single quotes with its quotes doubled,
\* a bool as TRUE or FALSE, anything else as fmt.Sprintf("%v", v).
formatDefault(v) ==
    IF v.kind = "string" THEN "'" \o DoubleQuotes(v.string) \o "'"
    ELSE IF v.kind = "bool" THEN (IF v.bool THEN "TRUE" ELSE "FALSE")
    ELSE ToString(v.int)

\* Variant of the unsupported-type error whose message names no column.
UnsupportedTypeUnnamed(col) == CompileFailed(SchemaErr({ErrUnsupportedType}, "", 0))

\* fmt.Errorf("column %q: type %q: %w", col.Name, col.Type.String(), ErrUnsupportedType)
UnsupportedType(col) == CompileFailed(SchemaErr({ErrUnsupportedType}, col.Name, 0))

\* The VARCHAR and DECIMAL texts with the defaults of the zero values.
Varchar(col) ==
    "VARCHAR(" \o ToString(IF col.Length <= 0 THEN 255 ELSE col.Length) \o ")"

Decimal(col) ==
    "DECIMAL(" \o ToString(IF col.Precision <= 0 THEN 10 ELSE col.Precision) \o ", "
        \o ToString(IF col.Scale < 0 THEN 0 ELSE col.Scale) \o ")"

TypeOk(sql) == Compiled(<<>>, <<sql>>)

\* PostgresGrammar.CompileColumnType
PostgresCompileColumnType(col) ==
    CASE col.Type = TypeString -> TypeOk(Varchar(col))
      [] col.Type = TypeText -> TypeOk("TEXT")
      [] col.Type = TypeInteger -> TypeOk(IF col.IsAutoIncrement THEN "SERIAL" ELSE "INTEGER")
      [] col.Type = TypeBigInteger -> TypeOk(IF col.IsAutoIncrement THEN "BIGSERIAL" ELSE "BIGINT")
      [] col.Type = TypeBoolean -> TypeOk("BOOLEAN")
      [] col.Type = TypeTimestamp -> TypeOk("TIMESTAMPTZ")
      [] col.Type = TypeDate -> TypeOk("DATE")
      [] col.Type = TypeDecimal -> TypeOk(Decimal(col))
      [] col.Type = TypeFloat -> TypeOk("DOUBLE PRECISION")
      [] col.Type = TypeUUID -> TypeOk("UUID")
      [] col.Type = TypeJSON -> TypeOk("JSONB")
      [] col.Type = TypeBinary -> TypeOk("BYTEA")
      [] OTHER -> UnsupportedType(col)

\* MySQLGrammar.CompileColumnType
MySQLCompileColumnType(col) ==
    LET modifiers == (IF col.IsUnsigned THEN " UNSIGNED" ELSE "")
                         \o (IF col.IsAutoIncrement THEN " AUTO_INCREMENT" ELSE "")
    IN CASE col.Type = TypeString -> TypeOk(Varchar(col))
         [] col.Type = TypeText -> TypeOk("TEXT")
         [] col.Type = TypeInteger -> TypeOk("INT" \o modifiers)
         [] col.Type = TypeBigInteger -> TypeOk("BIGINT" \o modifiers)
         [] col.Type = TypeBoolean -> TypeOk("TINYINT(1)")
         [] col.Type = TypeTimestamp -> TypeOk("TIMESTAMP")
         [] col.Type = TypeDate -> TypeOk("DATE")
         [] col.Type = TypeDecimal -> TypeOk(Decimal(col))
         [] col.Type = TypeFloat -> TypeOk("DOUBLE")
         [] col.Type = TypeUUID -> TypeOk("CHAR(36)")
         [] col.Type = TypeJSON -> TypeOk("JSON")
         [] col.Type = TypeBinary -> TypeOk("BLOB")
         [] OTHER -> UnsupportedType(col)

InlinePrimaryKey == "INTEGER PRIMARY KEY AUTOINCREMENT"

\* SQLiteGrammar.CompileColumnType
SQLiteCompileColumnType(col) ==
    LET integer == IF col.IsAutoIncrement /\ col.IsPrimary THEN InlinePrimaryKey ELSE "INTEGER"
    IN CASE col.Type = TypeString -> TypeOk("TEXT")
         [] col.Type = TypeText -> TypeOk("TEXT")
         [] col.Type = TypeInteger -> TypeOk(integer)
         [] col.Type = TypeBigInteger -> TypeOk(integer)
         [] col.Type = TypeBoolean -> TypeOk("INTEGER")
         [] col.Type = TypeTimestamp -> TypeOk("TEXT")
         [] col.Type = TypeDate -> TypeOk("TEXT")
         [] col.Type = TypeDecimal -> TypeOk("REAL")
         [] col.Type = TypeFloat -> TypeOk("REAL")
         [] col.Type = TypeUUID -> TypeOk("TEXT")
         [] col.Type = TypeJSON -> TypeOk("TEXT")
         [] col.Type = TypeBinary -> TypeOk("BLOB")
         [] OTHER -> UnsupportedType(col)

\* Grammar.CompileColumnType of the grammar g.
CompileColumnType(g, col) ==
    CASE g = "postgres" -> PostgresCompileColumnType(col)
      [] g = "mysql" -> MySQLCompileColumnType(col)
      [] g = "sqlite" -> SQLiteCompileColumnType(col)

IsIntegerType(col) == col.Type \in {TypeInteger, TypeBigInteger}

\* SQLiteGrammar.isInlineAutoIncrementPK
isInlineAutoIncrementPK(col) == col.IsPrimary /\ col.IsAutoIncrement /\ IsIntegerType(col)

\* The modifiers compileColumnDef writes after the type.
Modifiers(g, col) ==
    LET isSerial == g = "postgres" /\ col.IsAutoIncrement /\ IsIntegerType(col)
    IN (IF ~col.IsNullable /\ ~isSerial THEN <<"NOT NULL">> ELSE <<>>)
       \o (IF col.DefaultValue # <<>> THEN <<"DEFAULT", formatDefault(col.DefaultValue[1])>>
           ELSE <<>>)
       \o (IF col.IsUnique THEN <<"UNIQUE">> ELSE <<>>)

\* compileColumnDef of the grammar g: the words of the column clause.
compileColumnDef(g, col) ==
    LET colType == CompileColumnType(g, col)
    IN IF ~colType.ok THEN colType
       ELSE IF g = "sqlite" /\ isInlineAutoIncrementPK(col)
            THEN Compiled(<<<<quote(g, col.Name), colType.stmts[1]>>>>, <<>>)
       ELSE Compiled(<<<<quote(g, col.Name), colType.stmts[1]>> \o Modifiers(g, col)>>, <<>>)

\* The column loop of CompileCreate and CompileAlter: the clauses of the
\* columns from the i-th on, or the error of the first that fails.
RECURSIVE compileColumns(_, _, _)
compileColumns(g, columns, i) ==
    IF i > Len(columns) THEN Compiled(<<>>, <<>>)
    ELSE LET colSQL == compileColumnDef(g, columns[i])
             rest == compileColumns(g, columns, i + 1)
         IN IF ~colSQL.ok THEN colSQL
            ELSE IF ~rest.ok THEN rest
            ELSE Compiled(colSQL.parts \o rest.parts, <<>>)

\* compileForeignKey of the grammar g.
compileForeignKey(g, fk) ==
    <<"CONSTRAINT", quote(g, fk.Name), "FOREIGN KEY", "(" \o quote(g, fk.Column) \o ")",
      "REFERENCES", quote(g, fk.RefTable), "(" \o quote(g, fk.RefColumn) \o ")">>
    \o (IF fk.OnDelete # "" THEN <<"ON DELETE", fk.OnDelete>> ELSE <<>>)
    \o (IF fk.OnUpdate # "" THEN <<"ON UPDATE", fk.OnUpdate>> ELSE <<>>)

Words(part) == JoinStrings(part, " ")

ColumnList(g, names) == "(" \o JoinStrings(quoteSlice(g, names), ", ") \o ")"

\* CompileCreate of the grammar g.
CompileCreate(g, bp) ==
    IF Len(bp.columns) = 0 THEN CompileFailed(NoSchemaErr)
    ELSE
    LET cols == compileColumns(g, bp.columns, 1)
        pk == SelectSeq(bp.columns,
                        LAMBDA col : col.IsPrimary /\ ~(g = "sqlite" /\ isInlineAutoIncrementPK(col)))
        pkCols == [i \in DOMAIN pk |-> pk[i].Name]
        unique == SelectSeq(bp.indexes, LAMBDA idx : idx.Unique)
        plain == SelectSeq(bp.indexes, LAMBDA idx : ~idx.Unique)
        index(idx) ==
            IF g = "mysql"
            THEN <<IF idx.Unique THEN "UNIQUE KEY" ELSE "KEY", quote(g, idx.Name),
                   ColumnList(g, idx.Columns)>>
            ELSE <<"CONSTRAINT", quote(g, idx.Name), "UNIQUE", ColumnList(g, idx.Columns)>>
        inTable == IF g = "mysql" THEN bp.indexes ELSE unique
        parts == cols.parts
                 \o (IF Len(pkCols) > 0 THEN <<<<"PRIMARY KEY", ColumnList(g, pkCols)>>>> ELSE <<>>)
                 \o [i \in DOMAIN inTable |-> index(inTable[i])]
                 \o [i \in DOMAIN bp.foreignKeys |-> compileForeignKey(g, bp.foreignKeys[i])]
        trailing == IF g = "mysql" THEN <<>>
                    ELSE [i \in DOMAIN plain |->
                            "; CREATE INDEX " \o quote(g, plain[i].Name) \o " ON "
                                \o quote(g, bp.table) \o " " \o ColumnList(g, plain[i].Columns)]
        sql == "CREATE TABLE " \o quote(g, bp.table) \o " ("
                   \o JoinStrings([i \in DOMAIN parts |-> Words(parts[i])], ", ") \o ")"
                   \o JoinStrings(trailing, "")
    IN IF ~cols.ok THEN cols ELSE Compiled(parts, <<sql>>)

\* The statement CompileAlter gives for a command.
compileCommand(g, tbl, cmd) ==
    CASE cmd.Type = CommandDropColumn ->
            "ALTER TABLE " \o tbl \o " DROP COLUMN " \o quote(g, cmd.Name)
      [] cmd.Type = CommandRenameColumn ->
            "ALTER TABLE " \o tbl \o " RENAME COLUMN " \o quote(g, cmd.Name)
                \o " TO " \o quote(g, cmd.To)
      [] cmd.Type = CommandDropIndex ->
            IF g = "mysql" THEN "ALTER TABLE " \o tbl \o " DROP INDEX " \o quote(g, cmd.Name)
            ELSE "DROP INDEX " \o quote(g, cmd.Name)
      [] cmd.Type = CommandDropForeign ->
            "ALTER TABLE " \o tbl
                \o (IF g = "mysql" THEN " DROP FOREIGN KEY " ELSE " DROP CONSTRAINT ")
                \o quote(g, cmd.Name)

\* CompileAlter of the grammar g.
CompileAlter(g, bp) ==
    LET tbl == quote(g, bp.table)
        cols == compileColumns(g, bp.columns, 1)
        stmts ==
            [i \in DOMAIN cols.parts |-> "ALTER TABLE " \o tbl \o " ADD COLUMN " \o Words(cols.parts[i])]
            \o [i \in DOMAIN bp.commands |-> compileCommand(g, tbl, bp.commands[i])]
            \o [i \in DOMAIN bp.indexes |->
                    (IF bp.indexes[i].Unique THEN "CREATE UNIQUE INDEX " ELSE "CREATE INDEX ")
                        \o quote(g, bp.indexes[i].Name) \o " ON " \o tbl \o " "
                        \o ColumnList(g, bp.indexes[i].Columns)]
            \o [i \in DOMAIN bp.foreignKeys |->
                    "ALTER TABLE " \o tbl \o " ADD " \o Words(compileForeignKey(g, bp.foreignKeys[i]))]
    IN IF ~cols.ok THEN cols ELSE Compiled(<<>>, stmts)

\* ---------------------------------------------------------------- builder
ErrExec == "ErrExec"

\* What Builder.Alter did: the Exec calls the executor received, in order,
\* and the error it returned.
Ran(execs, ok, e) == [calls |-> execs, ok |-> ok, err |-> e]

NoExec == Ran(<<>>, TRUE, NoSchemaErr)

Exec(stmt, ok) == [stmt |-> stmt, ok |-> ok]

\* Variant of the statement loop that goes on after a failing statement.
RECURSIVE ExecFromNoStop(_, _, _, _)
ExecFromNoStop(stmts, i, F, done) ==
    IF i > Len(stmts) THEN
        IF \E j \in DOMAIN done : ~done[j].ok
        THEN Ran(done, FALSE, SchemaErr({ErrExec}, "", CHOOSE j \in DOMAIN done : ~done[j].ok))
        ELSE Ran(done, TRUE, NoSchemaErr)
    ELSE ExecFromNoStop(stmts, i + 1, F, Append(done, Exec(stmts[i], i \notin F)))

\* The loop of Builder.Alter from the i-th statement on: the executor
\* fails the statements whose position is in F.
RECURSIVE ExecFrom(_, _, _, _)
ExecFrom(stmts, i, F, done) ==
    IF i > Len(stmts) THEN Ran(done, TRUE, NoSchemaErr)
    ELSE IF i \in F
         THEN Ran(Append(done, Exec(stmts[i], FALSE)), FALSE, SchemaErr({ErrExec}, "", i))
    ELSE ExecFrom(stmts, i + 1, F, Append(done, Exec(stmts[i], TRUE)))

\* Builder.Alter(table, fn) with the grammar g, where fn fills the
\* blueprint to bp.
BuilderAlter(g, bp, F) ==
    LET compile == CompileAlter(g, bp)
    IN IF ~compile.ok THEN Ran(<<>>, FALSE, compile.err)
       ELSE ExecFrom(compile.stmts, 1, F, <<>>)

\* ---------------------------------------------------------------- schema inputs
BoundedSeq(S, n) == UNION {[1..k -> S] : k \in 0..n}

ColumnName(i) == "c" \o ToString(i)

\* The columns named by their position.
Named(columns) == [i \in DOMAIN columns |-> [columns[i] EXCEPT !.Name = ColumnName(i)]]

Sizes == -1..MaxSize

\* The columns CompileColumnType is applied to: every type, the lengths,
\* precisions and scales of Sizes, and the flags the integer types read.
TypeColumns ==
    {addColumn("c", t) : t \in ColumnTypes \cup {TypeUnknown}}
    \cup {BlueprintString("c", l) : l \in Sizes}
    \cup {BlueprintDecimal("c", p, s) : p \in Sizes, s \in Sizes}
    \cup {[addColumn("c", t) EXCEPT !.IsPrimary = p, !.IsAutoIncrement = a, !.IsUnsigned = u] :
            t \in {TypeInteger, TypeBigInteger}, p \in BOOLEAN, a \in BOOLEAN, u \in BOOLEAN}

\* The columns of the blueprints CompileCreate is applied to.
CreateColumns ==
    {[addColumn("c", TypeInteger) EXCEPT !.IsNullable = n, !.DefaultValue = d, !.IsUnique = u,
                                         !.IsPrimary = p, !.IsAutoIncrement = a] :
        n \in BOOLEAN, d \in {<<>>, <<IntValue(0)>>}, u \in BOOLEAN, p \in BOOLEAN,
        a \in BOOLEAN}
    \cup {BlueprintString("c", 0), addColumn("c", TypeUnknown)}
    \cup {[BlueprintString("c", 0) EXCEPT !.DefaultValue = <<StringValue(d)>>] :
            d \in {"pending", "it's"}}
    \cup {[addColumn("c", TypeBoolean) EXCEPT !.DefaultValue = <<BoolValue(d)>>] :
            d \in BOOLEAN}

IndexInputs ==
    BoundedSeq({IndexDefinition(TableName, <<ColumnName(1)>>, u) : u \in BOOLEAN}, MaxClauses)

ForeignInputs ==
    BoundedSeq({Foreign(TableName, ColumnName(1), "id", "r", d) : d \in {"", "CASCADE"}}, MaxClauses)

\* Blueprints of up to MaxColumns columns, and blueprints of one column
\* with indexes and foreign keys.
CreateBlueprints ==
    {[NewBlueprint(TableName) EXCEPT !.columns = Named(cs)] :
        cs \in BoundedSeq(CreateColumns, MaxColumns)}
    \cup {[NewBlueprint(TableName) EXCEPT !.columns = Named(<<BlueprintString("c", 0)>>),
                                          !.indexes = is, !.foreignKeys = fs] :
            is \in IndexInputs, fs \in ForeignInputs}

AlterColumns ==
    {addColumn("c", TypeInteger),
     [BlueprintString("c", 0) EXCEPT !.IsNullable = TRUE,
                                     !.DefaultValue = <<StringValue("it's")>>],
     addColumn("c", TypeUnknown)}

CommandInputs ==
    BoundedSeq({Command(CommandDropColumn, "old", ""), Command(CommandRenameColumn, "old", "new"),
                Command(CommandDropIndex, "idx_t_old", ""),
                Command(CommandDropForeign, "fk_t_old", "")}, MaxClauses)

AlterBlueprints ==
    {[NewBlueprint(TableName) EXCEPT !.columns = Named(cs), !.commands = ms, !.indexes = is,
                                     !.foreignKeys = fs] :
        cs \in BoundedSeq(AlterColumns, MaxColumns), ms \in CommandInputs, is \in IndexInputs,
        fs \in BoundedSeq({Foreign(TableName, ColumnName(1), "id", "r", "")}, MaxClauses)}

\* The statements the executor fails: none, one, or all from one on.
ExecFaults ==
    LET n == MaxColumns + 3 * MaxClauses
    IN {{}} \cup {{k} : k \in 1..n} \cup {k..n : k \in 1..n}

\* The record of a call of a Compile method.
Call(name, g, result) ==
    [call |-> name, grammar |-> g, ok |-> result.ok, parts |-> result.parts,
     stmts |-> result.stmts, err |-> result.err]

\* ---------------------------------------------------------------- actions
\* What the registry map and the DependsOn() methods hand to a seeder
\* operation: the names in the order the map yields them, and for each
\* seeder the list its DependsOn() returns.
Inputs(names, lists) == [names |-> names, lists |-> lists]

NoInputs == Inputs(<<>>, <<>>)

\* New(db, opts...): a Migrator on a database whose tracking table holds
\* the rows tbl, with the grammar g.
New(tbl, g) ==
    /\ migrations = <<>>
    /\ table = tbl
    /\ beforeHooks = <<>>
    /\ afterHooks = <<>>
    /\ op = "none"
    /\ arg = 0
    /\ pre = {}
    /\ log = <<>>
    /\ err = NoErr
    /\ seeders = <<>>
    /\ given = NoInputs
    /\ registry = <<>>
    /\ calls = <<>>
    /\ grammar = g
    /\ statuses = <<>>
    /\ manager = NewManager
    /\ routines = [g0 \in Routines |-> Idle]
    /\ opens = [n \in ConnNames |-> <<>>]
    /\ blueprint = NewBlueprint(TableName)
    /\ compiled = Call("none", nil, Compiled(<<>>, <<>>))
    /\ executed = NoExec

\* A Migrator without a grammar on an empty database.
Init == New({}, nil)

\* The operation o(a) returns result and the statuses ss, having been
\* handed the inputs g.
ReturnedWith(o, a, g, ss, result) ==
    \E st \in {result} :
        /\ op' = o
        /\ arg' = a
        /\ pre' = table
        /\ table' = st.table
        /\ log' = st.log
        /\ err' = st.err
        /\ given' = g
        /\ statuses' = ss

ReturnedGiven(o, a, g, result) == ReturnedWith(o, a, g, <<>>, result)

Returned(o, a, result) == ReturnedGiven(o, a, NoInputs, result)

Register(name) ==
    /\ op = "none"
    /\ LET r == RegistryRegister(migrations, name)
       IN /\ migrations' = r.migrations
          /\ Returned("Register", name, [table |-> table, log |-> <<>>, err |-> r.err])
    /\ UNCHANGED <<beforeHooks, afterHooks, seeders, registry, calls, grammar, manager, routines, opens, blueprint, compiled, executed>>

BeforeMigrate ==
    /\ op = "none"
    /\ Len(beforeHooks) < MaxHooks
    /\ beforeHooks' = Append(beforeHooks, Len(beforeHooks) + 1)
    /\ Returned("BeforeMigrate", 0, Start(table))
    /\ UNCHANGED <<migrations, afterHooks, seeders, registry, calls, grammar, manager, routines, opens, blueprint, compiled, executed>>

AfterMigrate ==
    /\ op = "none"
    /\ Len(afterHooks) < MaxHooks
    /\ afterHooks' = Append(afterHooks, Len(afterHooks) + 1)
    /\ Returned("AfterMigrate", 0, Start(table))
    /\ UNCHANGED <<migrations, beforeHooks, seeders, registry, calls, grammar, manager, routines, opens, blueprint, compiled, executed>>

Up ==
    /\ op = "none"
    /\ NextBatchValue(table) <= MaxBatch
    /\ \E F \in UpFaults :
          Returned("Up", 0, MigratorUp(Start(table), F, migrations, beforeHooks, afterHooks))
    /\ UNCHANGED <<migrations, beforeHooks, afterHooks, seeders, registry, calls, grammar, manager, routines, opens, blueprint, compiled, executed>>

Rollback ==
    /\ op = "none"
    /\ \E steps \in StepCounts : \E F \in RollbackFaults(steps) :
          Returned("Rollback", steps,
                   MigratorRollback(Start(table), F, migrations, beforeHooks, afterHooks, steps))
    /\ UNCHANGED <<migrations, beforeHooks, afterHooks, seeders, registry, calls, grammar, manager, routines, opens, blueprint, compiled, executed>>

Reset ==
    /\ op = "none"
    /\ \E F \in ResetFaults :
          Returned("Reset", 0, MigratorReset(Start(table), F, migrations, afterHooks))
    /\ UNCHANGED <<migrations, beforeHooks, afterHooks, seeders, registry, calls, grammar, manager, routines, opens, blueprint, compiled, executed>>

Refresh ==
    /\ op = "none"
    /\ \E F \in RefreshFaults :
          Returned("Refresh", 0,
                   MigratorRefresh(Start(table), F, migrations, beforeHooks, afterHooks))
    /\ UNCHANGED <<migrations, beforeHooks, afterHooks, seeders, registry, calls, grammar, manager, routines, opens, blueprint, compiled, executed>>

\* The host has received the result of the call and is ready for the next.
Return ==
    /\ op # "none"
    /\ op' = "none"
    /\ arg' = 0
    /\ pre' = {}
    /\ log' = <<>>
    /\ err' = NoErr
    /\ given' = NoInputs
    /\ statuses' = <<>>
    /\ UNCHANGED <<migrations, table, beforeHooks, afterHooks, seeders, registry, calls, grammar, manager, routines, opens, blueprint, compiled, executed>>

Next ==
    \/ \E name \in Names \cup {0} : Register(name)
    \/ BeforeMigrate
    \/ AfterMigrate
    \/ Up
    \/ Rollback
    \/ Reset
    \/ Refresh
    \/ Return

Spec == Init /\ [][Next]_vars

\* ---------------------------------------------------------------- failing after-hooks
\* The fault sets in which after-hooks fail next to the other faults: each
\* set of registered after-hooks failing on every call, joined to each
\* fault set of the operation.
AfterPoints(ns, d, H) == {<<"after", n, d, h>> : n \in ns, h \in H}

WithAfterFaults(base, ns, d, ah) ==
    {F \cup AfterPoints(ns, d, H) : F \in base, H \in SUBSET {ah[i] : i \in DOMAIN ah}}

UpFailingAfterHooks ==
    /\ op = "none"
    /\ NextBatchValue(table) <= MaxBatch
    /\ \E F \in WithAfterFaults(UpFaults, RegisteredNames(migrations), "up", afterHooks) :
          Returned("Up", 0, MigratorUp(Start(table), F, migrations, beforeHooks, afterHooks))
    /\ UNCHANGED <<migrations, beforeHooks, afterHooks, seeders, registry, calls, grammar, manager, routines, opens, blueprint, compiled, executed>>

RollbackFailingAfterHooks ==
    /\ op = "none"
    /\ \E steps \in StepCounts :
          \E F \in WithAfterFaults(RollbackFaults(steps), RecordedNames(table), "down", afterHooks) :
              Returned("Rollback", steps,
                       MigratorRollback(Start(table), F, migrations, beforeHooks, afterHooks, steps))
    /\ UNCHANGED <<migrations, beforeHooks, afterHooks, seeders, registry, calls, grammar, manager, routines, opens, blueprint, compiled, executed>>

ResetFailingAfterHooks ==
    /\ op = "none"
    /\ \E F \in WithAfterFaults(ResetFaults, RecordedNames(table), "down", afterHooks) :
          Returned("Reset", 0, MigratorReset(Start(table), F, migrations, afterHooks))
    /\ UNCHANGED <<migrations, beforeHooks, afterHooks, seeders, registry, calls, grammar, manager, routines, opens, blueprint, compiled, executed>>

\* The host registers migrations and after-hooks only; the failures of
\* before-hooks are covered by Next.
NextFailingAfterHooks ==
    \/ \E name \in Names : Register(name)
    \/ AfterMigrate
    \/ UpFailingAfterHooks
    \/ RollbackFailingAfterHooks
    \/ ResetFailingAfterHooks
    \/ Return

SpecFailingAfterHooks == Init /\ [][NextFailingAfterHooks]_vars

\* ---------------------------------------------------------------- seeders
\* Seeder names are the naturals 1..MaxSeeders in lexicographic order; 0
\* stands for a blank name. The registry maps each registered name to the
\* set of names its DependsOn() lists (empty for a seeder without
\* DependsOn). The order in which DependsOn() lists them, and the order in
\* which the registry map is iterated, are inputs of each call.
SeederNames == 1..MaxSeeders

ErrInvalidSeederName == "ErrInvalidSeederName"
ErrDuplicateSeeder == "ErrDuplicateSeeder"
ErrCircularDependency == "ErrCircularDependency"
ErrSeederNotFound == "ErrSeederNotFound"

\* Registry.Register of the seeder package.
SeederRegistryRegister(reg, name, deps) ==
    IF name \notin SeederNames
    THEN [seeders |-> reg, err |-> Wrap("seeder name", {name}, NewErr(ErrInvalidSeederName))]
    ELSE IF name \in DOMAIN reg
    THEN [seeders |-> reg, err |-> Wrap("seeder name", {name}, NewErr(ErrDuplicateSeeder))]
    ELSE [seeders |-> [n \in DOMAIN reg \cup {name} |-> IF n = name THEN deps ELSE reg[n]],
          err |-> NoErr]

\* Registry.Get of the seeder package.
SeederRegistryGet(reg, name) ==
    IF name \in DOMAIN reg THEN NoErr
    ELSE Wrap("seeder name", {name}, NewErr(ErrSeederNotFound))

\* Variant of sort.Strings that leaves the list as it is.
SortStringsUnsorted(list) == list

\* sort.Strings: the names of a list in ascending order.
RECURSIVE SortStrings(_)
SortStrings(list) ==
    IF list = <<>> THEN <<>>
    ELSE LET i == CHOOSE k \in DOMAIN list :
                      /\ \A j \in DOMAIN list : list[k] <= list[j]
                      /\ \A j \in 1..(k - 1) : list[j] # list[k]
         IN <<list[i]>> \o SortStrings(SubSeq(list, 1, i - 1) \o SubSeq(list, i + 1, Len(list)))

\* strings.Join(names, sep)
RECURSIVE Join(_, _)
Join(names, sep) ==
    IF names = <<>> THEN ""
    ELSE IF Len(names) = 1 THEN ToString(names[1])
    ELSE ToString(names[1]) \o sep \o Join(Tail(names), sep)

\* buildCyclePath: the path from the first occurrence of target, then
\* target, joined with " -> ".
buildCyclePath(path, target) ==
    IF \E i \in DOMAIN path : path[i] = target
    THEN LET start == CHOOSE i \in DOMAIN path :
                          path[i] = target /\ \A j \in 1..(i - 1) : path[j] # target
         IN Join(Append(SubSeq(path, start, Len(path)), target), " -> ")
    ELSE ToString(target) \o " -> " \o ToString(target)

\* The state of one resolution: order, the permanent and temporary marks,
\* the current path and the error that ends it.
Resolving == [order |-> <<>>, visited |-> {}, inProgress |-> {}, path |-> <<>>, err |-> NoErr]

RECURSIVE visit(_, _, _)
RECURSIVE visitDeps(_, _, _, _)
RECURSIVE visitPreOrder(_, _, _)
RECURSIVE visitNoCycleCheck(_, _, _)
RECURSIVE visitSkipMissing(_, _, _)

\* The loop of visit over the sorted dependencies, from the i-th on.
visitDeps(all, ds, deps, i) ==
    IF i > Len(deps) THEN ds
    ELSE Try(visit(all, ds, deps[i]), LAMBDA d : visitDeps(all, d, deps, i + 1))

\* Variant of visit that puts a seeder into the order before its
\* dependencies.
visitPreOrder(all, ds, n) ==
    IF n \in ds.visited THEN ds
    ELSE IF n \in ds.inProgress
    THEN [ds EXCEPT !.err = Wrap(buildCyclePath(ds.path, n), {}, NewErr(ErrCircularDependency))]
    ELSE Bind([ds EXCEPT !.inProgress = @ \cup {n}, !.path = Append(@, n)], LAMBDA d1 :
            IF n \notin DOMAIN all
            THEN [d1 EXCEPT !.err = Wrap("dependency", {n}, NewErr(ErrSeederNotFound))]
            ELSE Try(visitDeps(all, [d1 EXCEPT !.order = Append(@, n)], SortStrings(all[n]), 1),
                     LAMBDA d2 :
                        [d2 EXCEPT !.path = SubSeq(@, 1, Len(@) - 1),
                                   !.inProgress = @ \ {n},
                                   !.visited = @ \cup {n}]))

\* Variant of visit that takes a seeder in progress for a visited one.
visitNoCycleCheck(all, ds, n) ==
    IF n \in ds.visited \/ n \in ds.inProgress THEN ds
    ELSE Bind([ds EXCEPT !.inProgress = @ \cup {n}, !.path = Append(@, n)], LAMBDA d1 :
            IF n \notin DOMAIN all
            THEN [d1 EXCEPT !.err = Wrap("dependency", {n}, NewErr(ErrSeederNotFound))]
            ELSE Try(visitDeps(all, d1, SortStrings(all[n]), 1), LAMBDA d2 :
                    [d2 EXCEPT !.path = SubSeq(@, 1, Len(@) - 1),
                               !.inProgress = @ \ {n},
                               !.visited = @ \cup {n},
                               !.order = Append(@, n)]))

\* Variant of visit that passes over a name that is not registered.
visitSkipMissing(all, ds, n) ==
    IF n \in ds.visited THEN ds
    ELSE IF n \in ds.inProgress
    THEN [ds EXCEPT !.err = Wrap(buildCyclePath(ds.path, n), {}, NewErr(ErrCircularDependency))]
    ELSE IF n \notin DOMAIN all THEN ds
    ELSE Bind([ds EXCEPT !.inProgress = @ \cup {n}, !.path = Append(@, n)], LAMBDA d1 :
            Try(visitDeps(all, d1, SortStrings(all[n]), 1), LAMBDA d2 :
                [d2 EXCEPT !.path = SubSeq(@, 1, Len(@) - 1),
                           !.inProgress = @ \ {n},
                           !.visited = @ \cup {n},
                           !.order = Append(@, n)]))

\* The closure visit of resolveOrder (resolveAllOrder declares the same).
visit(all, ds, n) ==
    IF n \in ds.visited THEN ds
    ELSE IF n \in ds.inProgress
    THEN [ds EXCEPT !.err = Wrap(buildCyclePath(ds.path, n), {}, NewErr(ErrCircularDependency))]
    ELSE Bind([ds EXCEPT !.inProgress = @ \cup {n}, !.path = Append(@, n)], LAMBDA d1 :
            IF n \notin DOMAIN all
            THEN [d1 EXCEPT !.err = Wrap("dependency", {n}, NewErr(ErrSeederNotFound))]
            ELSE Try(visitDeps(all, d1, SortStrings(all[n]), 1), LAMBDA d2 :
                    [d2 EXCEPT !.path = SubSeq(@, 1, Len(@) - 1),
                               !.inProgress = @ \ {n},
                               !.visited = @ \cup {n},
                               !.order = Append(@, n)]))

resolveOrder(all, name) == visit(all, Resolving, name)

\* resolveAllOrder: the names as the map yields them are sorted, then
\* visited in that order.
resolveAllOrder(all, names) == visitDeps(all, Resolving, SortStrings(names), 1)

\* Variant of the loop that goes on after a seeder that failed.
RECURSIVE RunSeedersNoStop(_, _, _, _)
RunSeedersNoStop(st, F, order, i) ==
    IF i > Len(order) THEN st
    ELSE LET bad == order[i] \in F
         IN Bind([st EXCEPT !.log = Append(@, Event("Run", order[i], "-", 1, 0, ~bad)),
                            !.err = IF bad THEN Wrap("seeder", {order[i]}, NewErr("body"))
                                    ELSE st.err],
                 LAMBDA s : RunSeedersNoStop(s, F, order, i + 1))

\* The loop that runs the seeders of an order, from the i-th on: s.Run
\* fails for the seeders of F, and the first failure returns.
RECURSIVE RunSeeders(_, _, _, _)
RunSeeders(st, F, order, i) ==
    IF i > Len(order) THEN st
    ELSE LET bad == order[i] \in F
         IN TryWrap([st EXCEPT !.log = Append(@, Event("Run", order[i], "-", 1, 0, ~bad)),
                               !.err = IF bad THEN NewErr("body") ELSE NoErr],
                    "seeder", {order[i]},
                    LAMBDA s : RunSeeders(s, F, order, i + 1))

\* Runner.RunAll of the seeder package.
SeederRunAll(st, F, all, names) ==
    IF DOMAIN all = {} THEN st
    ELSE Bind(resolveAllOrder(all, names), LAMBDA r :
            IF ~r.err.ok THEN [st EXCEPT !.err = r.err]
            ELSE RunSeeders(st, F, r.order, 1))

\* The names of a set in one order of iteration.
RECURSIVE KeysOf(_)
KeysOf(S) ==
    IF S = {} THEN <<>>
    ELSE LET n == CHOOSE x \in S : TRUE IN <<n>> \o KeysOf(S \ {n})

\* Variant of Runner.Run that resolves the order of all seeders.
SeederRunResolvingAll(st, F, all, name) ==
    IF ~SeederRegistryGet(all, name).ok THEN [st EXCEPT !.err = SeederRegistryGet(all, name)]
    ELSE Bind(resolveAllOrder(all, KeysOf(DOMAIN all)), LAMBDA r :
            IF ~r.err.ok THEN [st EXCEPT !.err = r.err]
            ELSE RunSeeders(st, F, r.order, 1))

\* Runner.Run of the seeder package.
SeederRun(st, F, all, name) ==
    IF ~SeederRegistryGet(all, name).ok THEN [st EXCEPT !.err = SeederRegistryGet(all, name)]
    ELSE Bind(resolveOrder(all, name), LAMBDA r :
            IF ~r.err.ok THEN [st EXCEPT !.err = r.err]
            ELSE RunSeeders(st, F, r.order, 1))

\* The number of declared dependencies in a registry.
RECURSIVE EdgeCount(_, _)
EdgeCount(reg, S) ==
    IF S = {} THEN 0
    ELSE LET n == CHOOSE x \in S : TRUE
         IN Cardinality(reg[n]) + EdgeCount(reg, S \ {n})

\* The seeders whose Run fails in one call: none or one registered seeder
\* (the first failure ends the call).
SeederFaults == {{}} \cup {{n} : n \in DOMAIN seeders}

RegisterSeeder(name, deps) ==
    /\ op = "none"
    /\ EdgeCount(seeders, DOMAIN seeders) + Cardinality(deps) <= MaxEdges
    /\ LET r == SeederRegistryRegister(seeders, name, deps)
       IN /\ seeders' = r.seeders
          /\ Returned("RegisterSeeder", name, [table |-> table, log |-> <<>>, err |-> r.err])
    /\ UNCHANGED <<migrations, beforeHooks, afterHooks, registry, calls, grammar, manager, routines, opens, blueprint, compiled, executed>>

\* The orders in which the names of a set can be listed.
RECURSIVE Orders(_)
Orders(S) ==
    IF S = {} THEN {<<>>}
    ELSE UNION {{<<x>> \o list : list \in Orders(S \ {x})} : x \in S}

\* The registries as the runner sees them: each seeder of S with the list
\* its DependsOn() returns, in any order of its declared names.
RECURSIVE Listings(_, _)
Listings(reg, S) ==
    IF S = {} THEN {<<>>}
    ELSE LET n == CHOOSE x \in S : TRUE
         IN {[m \in S |-> IF m = n THEN list ELSE all[m]] :
                list \in Orders(reg[n]), all \in Listings(reg, S \ {n})}

\* RunAll with the names in the order the registry map yields them and the
\* dependency lists as DependsOn() returns them.
RunAll ==
    /\ op = "none"
    /\ \E F \in SeederFaults :
          \E names \in Orders(DOMAIN seeders) : \E all \in Listings(seeders, DOMAIN seeders) :
              ReturnedGiven("RunAll", 0, Inputs(names, all),
                            SeederRunAll(Start(table), F, all, names))
    /\ UNCHANGED <<migrations, beforeHooks, afterHooks, seeders, registry, calls, grammar, manager, routines, opens, blueprint, compiled, executed>>

Run(name) ==
    /\ op = "none"
    /\ \E F \in SeederFaults : \E all \in Listings(seeders, DOMAIN seeders) :
          ReturnedGiven("Run", name, Inputs(<<>>, all), SeederRun(Start(table), F, all, name))
    /\ UNCHANGED <<migrations, beforeHooks, afterHooks, seeders, registry, calls, grammar, manager, routines, opens, blueprint, compiled, executed>>

NextSeeder ==
    \/ \E name \in SeederNames \cup {0} : \E deps \in SUBSET SeederNames : RegisterSeeder(name, deps)
    \/ RunAll
    \/ \E name \in SeederNames : Run(name)
    \/ Return

SpecSeeder == Init /\ [][NextSeeder]_vars

\* ---------------------------------------------------------------- registrations
\* Registry.Register(name, m) called by the host, with the call and its
\* outcome kept in calls.
RegisterMigration(name, m) ==
    /\ op = "none"
    /\ Len(calls) < MaxCalls
    /\ \E r \in {RegistryRegisterMigration(registry, name, m)} :
          /\ registry' = r.migrations
          /\ calls' = Append(calls, [name |-> name, m |-> m, ok |-> r.err.ok])
          /\ Returned("Register", name, [table |-> table, log |-> <<>>, err |-> r.err])
    /\ UNCHANGED <<migrations, beforeHooks, afterHooks, seeders, grammar, manager, routines, opens, blueprint, compiled, executed>>

NextRegistry ==
    \/ \E name \in Names \cup {0} : \E m \in Implementations : RegisterMigration(name, m)
    \/ Return

SpecRegistry == Init /\ [][NextRegistry]_vars

\* ---------------------------------------------------------------- fresh
\* The fault sets of Fresh: the drop statement, and the calls of the Up
\* that follows it for every registered migration.
FreshFaults ==
    {{<<"DropAll", 0, "-", 1>>}}
    \cup FaultSets(TablePoints({"EnsureTable", "GetApplied", "GetLastBatchNumber"}, {1}),
                   RegisteredNames(migrations), {}, beforeHooks, afterHooks)

Fresh ==
    /\ op = "none"
    /\ grammar # nil => NextBatchValue(ExecOnTable(CompileDropAllTables(grammar), table)) <= MaxBatch
    /\ \E F \in FreshFaults :
          Returned("Fresh", 0,
                   MigratorFresh(Start(table), F, grammar, migrations, beforeHooks, afterHooks))
    /\ UNCHANGED <<migrations, beforeHooks, afterHooks, seeders, registry, calls, grammar, manager, routines, opens, blueprint, compiled, executed>>

\* New(db) and New(db, WithGrammar(g)) for each grammar.
InitFresh == \E g \in Grammars \cup {nil} : New({}, g)

NextFresh ==
    \/ \E name \in Names : Register(name)
    \/ BeforeMigrate
    \/ AfterMigrate
    \/ Up
    \/ Fresh
    \/ Return

SpecFresh == InitFresh /\ [][NextFresh]_vars

\* ---------------------------------------------------------------- connections
\* The host registers a driver: Lock, store, Unlock.
RegisterDriver(d) ==
    /\ CanLock(manager)
    /\ manager' = ManagerRegisterDriver(manager, d)
    /\ UNCHANGED <<migrations, table, beforeHooks, afterHooks, op, arg, pre, log, err, seeders,
                   given, registry, calls, grammar, statuses, routines, opens, blueprint, compiled, executed>>

\* The host adds a connection configuration: Lock, check, store, Unlock;
\* err is the error returned.
AddConnection(name, driver) ==
    /\ CanLock(manager)
    /\ \E r \in {ManagerAddConnection(manager, name, driver)} :
          /\ manager' = r.manager
          /\ err' = r.err
    /\ UNCHANGED <<migrations, table, beforeHooks, afterHooks, op, arg, pre, log, seeders, given,
                   registry, calls, grammar, statuses, routines, opens, blueprint, compiled, executed>>

\* The host sets the default connection: Lock, look up, store, Unlock.
SetDefault(name) ==
    /\ CanLock(manager)
    /\ \E r \in {ManagerSetDefault(manager, name)} :
          /\ manager' = r.manager
          /\ err' = r.err
    /\ UNCHANGED <<migrations, table, beforeHooks, afterHooks, op, arg, pre, log, seeders, given,
                   registry, calls, grammar, statuses, routines, opens, blueprint, compiled, executed>>

\* The host closes the manager: Lock, close every handle in the order the
\* map yields them (any of them failing), empty the map, Unlock.
Close ==
    /\ CanLock(manager)
    /\ \E order \in Orders(DOMAIN manager.connections) :
          \E failing \in SUBSET DOMAIN manager.connections :
              \E r \in {ManagerClose(manager, order, failing)} :
                  /\ manager' = r.manager
                  /\ err' = r.err
    /\ UNCHANGED <<migrations, table, beforeHooks, afterHooks, op, arg, pre, log, seeders, given,
                   registry, calls, grammar, statuses, routines, opens, blueprint, compiled, executed>>

\* Goroutine g enters Default().
DefaultCall(g) ==
    /\ routines[g].pc = "idle"
    /\ routines' = [routines EXCEPT ![g] = [Idle EXCEPT !.pc = "DefaultRLock"]]
    /\ UNCHANGED <<migrations, table, beforeHooks, afterHooks, op, arg, pre, log, err, seeders,
                   given, registry, calls, grammar, statuses, manager, opens, blueprint, compiled, executed>>

\* m.mu.RLock() of Default
DefaultRLock(g) ==
    /\ routines[g].pc = "DefaultRLock"
    /\ CanRLock(manager)
    /\ manager' = [manager EXCEPT !.readers = @ + 1]
    /\ routines' = [routines EXCEPT ![g].pc = "defaultName"]
    /\ UNCHANGED <<migrations, table, beforeHooks, afterHooks, op, arg, pre, log, err, seeders,
                   given, registry, calls, grammar, statuses, opens, blueprint, compiled, executed>>

\* The read of m.defaultName under the read lock, m.mu.RUnlock(), and
\* either the return of ErrNoDefault or the call of Connection(name).
DefaultName(g) ==
    /\ routines[g].pc = "defaultName"
    /\ manager' = [manager EXCEPT !.readers = @ - 1]
    /\ routines' = [routines EXCEPT ![g] =
                        IF manager.defaultName = 0
                        THEN [@ EXCEPT !.pc = "done", !.err = NewErr(ErrNoDefault)]
                        ELSE [@ EXCEPT !.pc = "RLock", !.name = manager.defaultName]]
    /\ UNCHANGED <<migrations, table, beforeHooks, afterHooks, op, arg, pre, log, err, seeders,
                   given, registry, calls, grammar, statuses, opens, blueprint, compiled, executed>>

\* Goroutine g enters Connection(name).
ConnectionCall(g, name) ==
    /\ routines[g].pc = "idle"
    /\ routines' = [routines EXCEPT ![g] = [Idle EXCEPT !.pc = "RLock", !.name = name]]
    /\ UNCHANGED <<migrations, table, beforeHooks, afterHooks, op, arg, pre, log, err, seeders,
                   given, registry, calls, grammar, statuses, manager, opens, blueprint, compiled, executed>>

\* m.mu.RLock()
ConnectionRLock(g) ==
    /\ routines[g].pc = "RLock"
    /\ CanRLock(manager)
    /\ manager' = [manager EXCEPT !.readers = @ + 1]
    /\ routines' = [routines EXCEPT ![g].pc = "cached"]
    /\ UNCHANGED <<migrations, table, beforeHooks, afterHooks, op, arg, pre, log, err, seeders,
                   given, registry, calls, grammar, statuses, opens, blueprint, compiled, executed>>

\* The look at the cache under the read lock, m.mu.RUnlock(), and the
\* return of the cached handle when there is one.
ConnectionCached(g) ==
    /\ routines[g].pc = "cached"
    /\ manager' = [manager EXCEPT !.readers = @ - 1]
    /\ routines' = [routines EXCEPT ![g] =
                        IF @.name \in DOMAIN manager.connections
                        THEN [@ EXCEPT !.pc = "done",
                                       !.db = manager.connections[routines[g].name]]
                        ELSE [@ EXCEPT !.pc = "Lock"]]
    /\ UNCHANGED <<migrations, table, beforeHooks, afterHooks, op, arg, pre, log, err, seeders,
                   given, registry, calls, grammar, statuses, opens, blueprint, compiled, executed>>

\* m.mu.Lock()
ConnectionLock(g) ==
    /\ routines[g].pc = "Lock"
    /\ CanLock(manager)
    /\ manager' = [manager EXCEPT !.writer = TRUE]
    /\ routines' = [routines EXCEPT ![g].pc = "locked"]
    /\ UNCHANGED <<migrations, table, beforeHooks, afterHooks, op, arg, pre, log, err, seeders,
                   given, registry, calls, grammar, statuses, opens, blueprint, compiled, executed>>

\* The rest of Connection under the write lock, with the deferred Unlock.
ConnectionOpen(g) ==
    /\ routines[g].pc = "locked"
    /\ \E ok \in BOOLEAN :
          \E r \in {ConnectionLocked(manager, routines[g].name, ok,
                                      Len(opens[routines[g].name]) + 1)} :
              /\ manager' = [r.manager EXCEPT !.writer = FALSE]
              /\ routines' = [routines EXCEPT ![g] = [@ EXCEPT !.pc = "done", !.db = r.db,
                                                               !.err = r.err]]
              /\ opens' = IF r.opened
                          THEN [opens EXCEPT ![routines[g].name] = Append(@, ok)]
                          ELSE opens
    /\ UNCHANGED <<migrations, table, beforeHooks, afterHooks, op, arg, pre, log, err, seeders,
                   given, registry, calls, grammar, statuses, blueprint, compiled, executed>>

\* The goroutines calling Connection on a manager the host registers
\* drivers and configures connections on.
NextConnection ==
    \/ \E d \in DriverNames : RegisterDriver(d)
    \/ \E name \in ConnNames : \E d \in ConfigDrivers : AddConnection(name, d)
    \/ \E g \in Routines : \E name \in ConnNames : ConnectionCall(g, name)
    \/ \E g \in Routines : ConnectionRLock(g)
    \/ \E g \in Routines : ConnectionCached(g)
    \/ \E g \in Routines : ConnectionLock(g)
    \/ \E g \in Routines : ConnectionOpen(g)

SpecConnection == Init /\ [][NextConnection]_vars

\* Every method of the Manager: the host also sets the default and closes
\* the manager, and goroutines also call Default.
NextManager ==
    \/ NextConnection
    \/ \E name \in ConnNames : SetDefault(name)
    \/ Close
    \/ \E g \in Routines : DefaultCall(g)
    \/ \E g \in Routines : DefaultRLock(g)
    \/ \E g \in Routines : DefaultName(g)

SpecManager == Init /\ [][NextManager]_vars

\* ---------------------------------------------------------------- status
\* The rows a tracking table can hold when the Migrator is opened on it:
\* at most one per name (the migration column is UNIQUE), each with its
\* batch and its created_at timestamp.
StoredTables ==
    UNION {{{[name |-> n, batch |-> f[n].batch, at |-> f[n].at] : n \in S} :
               f \in [S -> [batch : 1..MaxBatch, at : 1..MaxTime]]} : S \in SUBSET Names}

StatusFaults == {{}} \cup {{p} : p \in TablePoints({"EnsureTable", "GetApplied"}, {1})}

Status ==
    /\ op = "none"
    /\ \E F \in StatusFaults :
          \E res \in {MigratorStatus(Start(table), F)} :
              ReturnedWith("Status", 0, NoInputs, MigratorStatusList(res, migrations), res)
    /\ UNCHANGED <<migrations, beforeHooks, afterHooks, seeders, registry, calls, grammar, manager, routines, opens, blueprint, compiled, executed>>

InitStatus == \E tbl \in StoredTables : New(tbl, nil)

NextStatus ==
    \/ \E name \in Names : Register(name)
    \/ Status
    \/ Return

SpecStatus == InitStatus /\ [][NextStatus]_vars

\* ---------------------------------------------------------------- tracking failures
\* The operations that read and write the tracking table, on a Migrator
\* without hooks.
NextTracking ==
    \/ \E name \in Names : Register(name)
    \/ Up
    \/ Rollback
    \/ Reset
    \/ Refresh
    \/ Status
    \/ Return

SpecTracking == Init /\ [][NextTracking]_vars

\* ---------------------------------------------------------------- runner calls
\* The directions Runner.Execute is called with: the two the Migrator
\* uses and one that is neither.
Directions == {"up", "down", "sideways"}

\* The calls of one Execute that fail: none, one, or the body or the
\* Commit together with the Rollback that follows it.
ExecuteFaults(n, d) ==
    {{}} \cup {{<<ev, n, d, 1>>} : ev \in {"Begin", "body", "Commit", "Rollback"}}
         \cup RollbackPairs({n}, d)

\* Runner.Execute(m, direction) called by the host.
RunnerExecute ==
    /\ op = "none"
    /\ \E n \in Names : \E d \in Directions : \E F \in ExecuteFaults(n, d) :
          Returned("Execute", n, Execute(Start(table), F, n, d))
    /\ UNCHANGED <<migrations, beforeHooks, afterHooks, seeders, registry, calls, grammar, manager, routines, opens, blueprint, compiled, executed>>

NextRunner ==
    \/ \E name \in Names : Register(name)
    \/ Up
    \/ Rollback
    \/ RunnerExecute
    \/ Return

SpecRunner == Init /\ [][NextRunner]_vars

\* ---------------------------------------------------------------- schema actions
ColumnType ==
    /\ compiled.call = "none"
    /\ \E g \in Grammars, col \in TypeColumns :
          /\ blueprint' = [NewBlueprint(TableName) EXCEPT !.columns = <<col>>]
          /\ compiled' = Call("CompileColumnType", g, CompileColumnType(g, col))
    /\ executed' = NoExec
    /\ UNCHANGED <<migrations, table, beforeHooks, afterHooks, op, arg, pre, log, err, seeders, given,
                   registry, calls, grammar, statuses, manager, routines, opens>>

Create ==
    /\ compiled.call = "none"
    /\ \E g \in Grammars, bp \in CreateBlueprints :
          /\ blueprint' = bp
          /\ compiled' = Call("CompileCreate", g, CompileCreate(g, bp))
    /\ executed' = NoExec
    /\ UNCHANGED <<migrations, table, beforeHooks, afterHooks, op, arg, pre, log, err, seeders, given,
                   registry, calls, grammar, statuses, manager, routines, opens>>

Alter ==
    /\ compiled.call = "none"
    /\ \E g \in Grammars, bp \in AlterBlueprints, F \in ExecFaults :
          /\ blueprint' = bp
          /\ compiled' = Call("CompileAlter", g, CompileAlter(g, bp))
          /\ executed' = BuilderAlter(g, bp, F)
    /\ UNCHANGED <<migrations, table, beforeHooks, afterHooks, op, arg, pre, log, err, seeders, given,
                   registry, calls, grammar, statuses, manager, routines, opens>>

\* The caller has received what the call returned and makes the next call
\* with a blueprint of its own.
Handed ==
    /\ compiled.call # "none"
    /\ blueprint' = NewBlueprint(TableName)
    /\ compiled' = Call("none", nil, Compiled(<<>>, <<>>))
    /\ executed' = NoExec
    /\ UNCHANGED <<migrations, table, beforeHooks, afterHooks, op, arg, pre, log, err, seeders, given,
                   registry, calls, grammar, statuses, manager, routines, opens>>

NextGrammar ==
    \/ ColumnType
    \/ Create
    \/ Handed

SpecGrammar == Init /\ [][NextGrammar]_vars

NextSchema ==
    \/ Alter
    \/ Handed

SpecSchema == Init /\ [][NextSchema]_vars

\* ---------------------------------------------------------------- observations
\* What the properties below read off a returned operation.
Registered == {migrations[i] : i \in DOMAIN migrations}

PreNames == {r.name : r \in pre}

NamesOf(tbl) == {r.name : r \in tbl}

\* The largest batch of a table, 0 for an empty one.
MaxBatchOf(tbl) ==
    IF tbl = {} THEN 0
    ELSE CHOOSE b \in {r.batch : r \in tbl} : \A r \in tbl : r.batch <= b

\* The names of a set in ascending and in descending order.
RECURSIVE AscOf(_)
AscOf(S) ==
    IF S = {} THEN <<>>
    ELSE LET m == CHOOSE x \in S : \A y \in S : x <= y
         IN <<m>> \o AscOf(S \ {m})

RECURSIVE DescOf(_)
DescOf(S) ==
    IF S = {} THEN <<>>
    ELSE LET m == CHOOSE x \in S : \A y \in S : x >= y
         IN <<m>> \o DescOf(S \ {m})

\* The migrations whose body ran in direction dir, in the order they ran.
BodiesRun(dir) ==
    LET IsBody(e) == e.ev = "body" /\ e.dir = dir
        sel == SelectSeq(log, IsBody)
    IN [i \in DOMAIN sel |-> sel[i].name]

\* The body of name n ran in direction dir and returned an error.
BodyFailed(n, dir) ==
    \E i \in DOMAIN log : log[i].ev = "body" /\ log[i].name = n /\ log[i].dir = dir /\ ~log[i].ok

\* The position of the call (ev, n, dir) in the log, 0 when it was not made.
PosOf(ev, n, dir) ==
    IF \E i \in DOMAIN log : log[i].ev = ev /\ log[i].name = n /\ log[i].dir = dir
    THEN CHOOSE i \in DOMAIN log : log[i].ev = ev /\ log[i].name = n /\ log[i].dir = dir
    ELSE 0

\* ---------------------------------------------------------------- properties
\* C1: a successful Up() runs the Up body of exactly the registered
\* migrations without a tracking record, each once, in ascending name
\* order, whatever the order of registration, and of no recorded one.
C1_UpRunsPendingAscending ==
    (op = "Up" /\ err.ok) => BodiesRun("up") = AscOf(Registered \ PreNames)

C1_Witness ==
    /\ op = "Up" /\ err.ok
    /\ PreNames # {}
    /\ Len(BodiesRun("up")) >= 2
    /\ \E n \in PreNames \cap Registered : BodiesRun("up")[1] < n /\ n < BodiesRun("up")[2]

\* C2: the records one Up() call inserts all carry the batch number
\* (largest batch in the table when the call began) + 1, 0 + 1 for an
\* empty table.
C2_UpBatchIsPreviousMaxPlusOne ==
    op = "Up" =>
        /\ pre \subseteq table
        /\ \A r \in table \ pre : r.batch = MaxBatchOf(pre) + 1
        /\ \A i \in DOMAIN log : log[i].ev = "Record" => log[i].batch = MaxBatchOf(pre) + 1

C2_Witness ==
    /\ op = "Up"
    /\ pre # {}
    /\ Cardinality(table \ pre) >= 2
    /\ MaxBatchOf(pre) >= 1

\* C3: when the Up body of a pending migration fails, Up() returns an
\* error naming it, the pending migrations before it are recorded with
\* the batch of the call, it is not recorded, and the pending migrations
\* after it are neither run nor recorded.
C3_UpFailureStopsLater ==
    \A n \in Names :
        (op = "Up" /\ BodyFailed(n, "up")) =>
            LET pending == Registered \ PreNames
            IN /\ ~err.ok
               /\ n \in err.names
               /\ n \in pending
               /\ table = pre \cup {[name |-> p, batch |-> MaxBatchOf(pre) + 1] :
                                       p \in {q \in pending : q < n}}
               /\ \A i \in DOMAIN log : log[i].name <= n

C3_Witness ==
    /\ op = "Up"
    /\ \E n \in Names :
        /\ BodyFailed(n, "up")
        /\ \E p \in Registered \ PreNames : p < n
        /\ \E p \in Registered \ PreNames : p > n
        /\ Cardinality(table \ pre) >= 1

\* Every call in the log succeeded.
AllOk == \A i \in DOMAIN log : log[i].ok

\* The records Rollback(steps) is to undo in a table: those of the largest
\* batch for steps = 0, the min(steps, total) last names for steps > 0.
TargetNames(tbl, steps) ==
    IF steps = 0
    THEN {r.name : r \in {x \in tbl : x.batch = MaxBatchOf(tbl)}}
    ELSE {n \in NamesOf(tbl) : Cardinality({m \in NamesOf(tbl) : m > n}) < steps}

\* C4: Rollback(0) runs Down for exactly the records of the largest batch,
\* in descending name order, removes each record after its Down, and leaves
\* the records of the other batches; on an empty table it succeeds and
\* runs nothing.
C4_RollbackZeroUndoesLastBatch ==
    (op = "Rollback" /\ arg = 0) =>
        LET last == {r \in pre : r.batch = MaxBatchOf(pre)}
        IN /\ err.ok =>
                /\ BodiesRun("down") = DescOf(NamesOf(last))
                /\ table = pre \ last
                /\ \A n \in NamesOf(last) :
                      /\ 0 < PosOf("body", n, "down")
                      /\ PosOf("body", n, "down") < PosOf("Remove", n, "down")
           /\ pre \ last \subseteq table
           /\ (pre = {} /\ AllOk) =>
                /\ err.ok
                /\ table = {}
                /\ \A i \in DOMAIN log : log[i].ev \in {"EnsureTable", "GetLastBatchNumber"}

C4_Witness ==
    /\ op = "Rollback" /\ arg = 0 /\ err.ok
    /\ Cardinality({r \in pre : r.batch = MaxBatchOf(pre)}) >= 2
    /\ \E r \in pre : r.batch < MaxBatchOf(pre)
    /\ Len(BodiesRun("down")) >= 2

\* C5: for n > 0 a successful Rollback(n) runs Down for the min(n, total)
\* last names of the applied list, in descending order, and removes
\* exactly their records.
C5_RollbackStepsUndoesLastN ==
    (op = "Rollback" /\ arg > 0 /\ err.ok) =>
        LET total == Cardinality(pre)
            k == IF arg > total THEN total ELSE arg
        IN /\ BodiesRun("down") = SubSeq(DescOf(PreNames), 1, k)
           /\ table = {r \in pre : Cardinality({m \in PreNames : m > r.name}) >= k}
           /\ Cardinality(pre) - Cardinality(table) = k

C5_Witness ==
    /\ op = "Rollback" /\ err.ok
    /\ arg >= 2
    /\ arg < Cardinality(pre)
    /\ Len(BodiesRun("down")) = arg

\* C6: when a Down body fails during Rollback, Rollback returns an error
\* naming that migration; its record and the records not yet processed
\* remain and their Down never runs, and the records removed before stay
\* removed with nothing applied again.
C6_RollbackFailureStopsLater ==
    \A n \in Names :
        (op = "Rollback" /\ BodyFailed(n, "down")) =>
            LET T == TargetNames(pre, arg)
            IN /\ ~err.ok
               /\ n \in err.names
               /\ n \in T
               /\ table = {r \in pre : ~(r.name \in T /\ r.name > n)}
               /\ {BodiesRun("down")[i] : i \in DOMAIN BodiesRun("down")} = {t \in T : t >= n}
               /\ BodiesRun("up") = <<>>
               /\ \A i \in DOMAIN log : log[i].ev # "Record"

C6_Witness ==
    /\ op = "Rollback"
    /\ \E n \in Names :
        /\ BodyFailed(n, "down")
        /\ \E t \in TargetNames(pre, arg) : t > n
        /\ \E t \in TargetNames(pre, arg) : t < n
        /\ Cardinality(table) = Cardinality(pre) - 1

\* C7: a successful Reset() runs Down for every applied migration of every
\* batch in descending name order, removes each record after its Down and
\* leaves the table empty; with nothing applied it runs nothing and
\* succeeds.
C7_ResetUndoesAllDescending ==
    op = "Reset" =>
        /\ err.ok =>
            /\ BodiesRun("down") = DescOf(PreNames)
            /\ table = {}
            /\ \A n \in PreNames :
                  /\ 0 < PosOf("body", n, "down")
                  /\ PosOf("body", n, "down") < PosOf("Remove", n, "down")
        /\ (pre = {} /\ AllOk) =>
            /\ err.ok
            /\ table = {}
            /\ \A i \in DOMAIN log : log[i].ev \in {"EnsureTable", "GetApplied"}

C7_Witness ==
    /\ op = "Reset" /\ err.ok
    /\ Cardinality(pre) >= 3
    /\ Cardinality({r.batch : r \in pre}) >= 2
    /\ table = {}

\* C8: when every applied migration is registered, a successful Refresh()
\* does what Reset() followed by Up() does: Down for every applied
\* migration in descending name order, then Up for every registered
\* migration in ascending name order, all recorded with batch 1.
C8_RefreshIsResetThenUp ==
    (op = "Refresh" /\ err.ok /\ PreNames \subseteq Registered) =>
        /\ BodiesRun("down") = DescOf(PreNames)
        /\ BodiesRun("up") = AscOf(Registered)
        /\ \A i, j \in DOMAIN log :
              (log[i].ev = "body" /\ log[i].dir = "down" /\ log[j].ev = "body" /\ log[j].dir = "up")
                  => i < j
        /\ table = {[name |-> n, batch |-> 1] : n \in Registered}

C8_Witness ==
    /\ op = "Refresh" /\ err.ok
    /\ Cardinality(pre) >= 2
    /\ MaxBatchOf(pre) >= 2
    /\ Registered \ PreNames # {}
    /\ Cardinality(table) >= 3

\* C9: when every registered migration has a record, Up() is a no-op:
\* after the ensure-table and applied-list reads it makes no further call
\* and changes no record, and it succeeds when the two reads do; a
\* successful Up() leaves every registered migration recorded, so an Up()
\* right after it is such a no-op.
C9_UpNoPendingIsNoOp ==
    op = "Up" =>
        /\ Registered \subseteq PreNames =>
            /\ table = pre
            /\ Len(log) <= 2
            /\ \A i \in DOMAIN log : log[i].ev \in {"EnsureTable", "GetApplied"}
            /\ AllOk => (err.ok /\ Len(log) = 2)
        /\ err.ok => Registered \subseteq NamesOf(table)

C9_Witness ==
    /\ op = "Up" /\ err.ok
    /\ Cardinality(Registered) >= 2
    /\ Registered \subseteq PreNames
    /\ beforeHooks # <<>> /\ afterHooks # <<>>
    /\ Len(log) = 2

\* The stage of a call within the handling of one migration by Up.
Stage(e) ==
    CASE e.ev = "before" -> 1
      [] e.ev \in {"Begin", "body", "Commit", "Rollback"} -> 2
      [] e.ev = "Record" -> 3
      [] e.ev = "after" -> 4
      [] OTHER -> 0

\* The calls of the log made for migration n, as <<ev, idx>> pairs.
CallsFor(n) ==
    LET IsFor(e) == e.name = n
        sel == SelectSeq(log, IsFor)
    IN [i \in DOMAIN sel |-> <<sel[i].ev, sel[i].idx>>]

\* The calls Up makes for a migration that it handles to the end.
FullBlock(n) ==
    [i \in DOMAIN beforeHooks |-> <<"before", beforeHooks[i]>>]
    \o (IF n \in OptOut THEN <<<<"body", 1>>>>
        ELSE <<<<"Begin", 1>>, <<"body", 1>>, <<"Commit", 1>>>>)
    \o <<<<"Record", 1>>>>
    \o [i \in DOMAIN afterHooks |-> <<"after", afterHooks[i]>>]

\* C10: within Up() the calls for one pending migration come in the order
\* before-hooks, Runner.Execute, Tracker.Record(name, batch), after-hooks,
\* all in direction "up", and every call for one migration comes before
\* every call for the next.
C10_UpEventOrder ==
    op = "Up" =>
        /\ \A i, j \in DOMAIN log :
              (i < j /\ log[i].name # 0) =>
                  /\ log[i].name <= log[j].name
                  /\ log[i].name = log[j].name => Stage(log[i]) <= Stage(log[j])
        /\ \A i \in DOMAIN log : log[i].name # 0 => log[i].dir = "up"
        /\ \A n \in Names :
              (\E i \in DOMAIN log : log[i].ev = "Record" /\ log[i].name = n /\ log[i].ok)
                  => CallsFor(n) = FullBlock(n)

C10_Witness ==
    /\ op = "Up" /\ err.ok
    /\ Len(beforeHooks) >= 2 /\ Len(afterHooks) >= 2
    /\ Cardinality(table \ pre) >= 2
    /\ \E n \in NamesOf(table \ pre) : n \notin OptOut /\ CallsFor(n) = FullBlock(n)

\* The hook ids of the before-hook calls made for migration n in direction
\* dir, in the order of the calls, and the same for the after-hooks.
HookCalls(kind, n, dir) ==
    LET IsCall(e) == e.ev = kind /\ e.name = n /\ e.dir = dir
        sel == SelectSeq(log, IsCall)
    IN [i \in DOMAIN sel |-> sel[i].idx]

\* C11: Reset() invokes the registered before-hooks with direction "down"
\* for every applied migration before its Down executes, like Rollback,
\* then Runner.Execute(down), Tracker.Remove(name) and the after-hooks.
C11_ResetRunsBeforeHooks ==
    op = "Reset" =>
        \A i \in DOMAIN log :
            (log[i].ev = "body" /\ log[i].dir = "down") =>
                /\ HookCalls("before", log[i].name, "down") = beforeHooks
                /\ \A j \in DOMAIN log :
                      (log[j].ev = "before" /\ log[j].name = log[i].name) => j < i

\* C12: in Up() and Rollback() the before-hooks of a migration are called
\* in registration order; a failing before-hook is the last call of the
\* operation (no later hook, no transaction, no body, no tracking write,
\* no later migration; only the registry lookup and earlier hooks were
\* made for that migration), its record is neither written nor removed,
\* and the returned error wraps the hook's error and names the migration.
C12_BeforeHookFailureAborts ==
    op \in {"Up", "Rollback"} =>
        /\ \A n \in Names : \A d \in {"up", "down"} :
              \E k \in 0..Len(beforeHooks) : HookCalls("before", n, d) = SubSeq(beforeHooks, 1, k)
        /\ \A i \in DOMAIN log :
              (log[i].ev \in {"Begin", "body"}) =>
                  HookCalls("before", log[i].name, log[i].dir) = beforeHooks
        /\ \A i \in DOMAIN log :
              (log[i].ev = "before" /\ ~log[i].ok) =>
                  /\ i = Len(log)
                  /\ ~err.ok
                  /\ "hook" \in err.is
                  /\ log[i].name \in err.names
                  /\ (log[i].name \in NamesOf(table)) = (log[i].name \in PreNames)
                  /\ \A j \in DOMAIN log :
                        log[j].name = log[i].name => log[j].ev \in {"Get", "before"}

C12_Witness ==
    /\ op = "Up"
    /\ Len(beforeHooks) >= 2
    /\ \E i \in DOMAIN log :
          /\ log[i].ev = "before" /\ ~log[i].ok
          /\ log[i].idx = beforeHooks[1]
          /\ \E p \in NamesOf(table \ pre) : p < log[i].name
          /\ \E p \in Registered \ PreNames : p > log[i].name

\* The calls of the log that failed, as fault signatures.
FailedCalls == {<<log[i].ev, log[i].name, log[i].dir, log[i].idx>> : i \in {j \in DOMAIN log : ~log[j].ok}}

\* The calls of a log without the results of the after-hooks.
WithoutAfterResults(lg) ==
    [i \in DOMAIN lg |-> IF lg[i].ev = "after" THEN [lg[i] EXCEPT !.ok = TRUE] ELSE lg[i]]

\* The operation that has returned, run again from the same table with the
\* same failing calls except that no after-hook fails.
SameWithoutAfterFailures ==
    LET F0 == {f \in FailedCalls : f[1] # "after"}
    IN CASE op = "Up" -> MigratorUp(Start(pre), F0, migrations, beforeHooks, afterHooks)
         [] op = "Rollback" ->
                MigratorRollback(Start(pre), F0, migrations, beforeHooks, afterHooks, arg)
         [] op = "Reset" -> MigratorReset(Start(pre), F0, migrations, afterHooks)

\* C13: in Up, Rollback and Reset every registered after-hook is called,
\* in registration order, for each migration whose tracking record was
\* written or removed, also when earlier after-hooks fail; and the
\* returned error, the calls made and the resulting records are the same
\* as when no after-hook fails.
C13_AfterHookFailuresChangeNothing ==
    op \in {"Up", "Rollback", "Reset"} =>
        /\ \A i \in DOMAIN log :
              (log[i].ev \in {"Record", "Remove"} /\ log[i].ok) =>
                  /\ HookCalls("after", log[i].name, log[i].dir) = afterHooks
                  /\ \A k \in 1..Len(afterHooks) :
                        /\ i + k <= Len(log)
                        /\ log[i + k].ev = "after"
                        /\ log[i + k].name = log[i].name
        /\ \E r \in {SameWithoutAfterFailures} :
              /\ r.err = err
              /\ r.table = table
              /\ WithoutAfterResults(r.log) = WithoutAfterResults(log)

C13_Witness ==
    /\ op = "Up"
    /\ Len(afterHooks) >= 2
    /\ ~err.ok
    /\ Cardinality(table \ pre) >= 1
    /\ \E i, j \in DOMAIN log :
          /\ i < j
          /\ log[i].ev = "after" /\ ~log[i].ok /\ log[i].idx = afterHooks[1]
          /\ log[j].ev = "after" /\ log[j].name = log[i].name /\ log[j].idx = afterHooks[2]
    /\ \E i \in DOMAIN log : log[i].ev = "body" /\ ~log[i].ok

\* The positions of the calls (ev, n, dir) in the log.
CallsAt(ev, n, dir) ==
    {i \in DOMAIN log : log[i].ev = ev /\ log[i].name = n /\ log[i].dir = dir}

\* The call at position i + 1 is the Rollback of the transaction of the
\* call at position i, and it ends the operation.
RolledBackAfter(i) ==
    /\ i + 1 = Len(log)
    /\ log[i + 1].ev = "Rollback"
    /\ log[i + 1].name = log[i].name
    /\ log[i + 1].dir = log[i].dir

\* C14: when the body of a transactional migration fails, the transaction
\* is rolled back and never committed, and the returned error still holds
\* the body's error, also when the Rollback fails.
C14_BodyFailureRollsBack ==
    \A i \in DOMAIN log :
        (log[i].ev = "body" /\ ~log[i].ok /\ ~DisableTransaction(log[i].name)) =>
            /\ RolledBackAfter(i)
            /\ CallsAt("Commit", log[i].name, log[i].dir) = {}
            /\ ~err.ok
            /\ "body" \in err.is

C14_Witness ==
    /\ op = "Rollback"
    /\ Len(log) >= 2
    /\ log[Len(log)].ev = "Rollback" /\ ~log[Len(log)].ok
    /\ log[Len(log) - 1].ev = "body" /\ ~log[Len(log) - 1].ok
    /\ "body" \in err.is

\* C15: when Commit fails, a Rollback is attempted and the returned error
\* is a TransactionFailed error whether the Rollback succeeds or fails; Up
\* then writes no record for that migration and Rollback and Reset remove
\* none.
C15_CommitFailureIsTransactionFailed ==
    \A i \in DOMAIN log :
        (log[i].ev = "Commit" /\ ~log[i].ok) =>
            /\ RolledBackAfter(i)
            /\ ~err.ok
            /\ ErrTransactionFailed \in err.is
            /\ CallsAt("Record", log[i].name, log[i].dir) = {}
            /\ CallsAt("Remove", log[i].name, log[i].dir) = {}
            /\ op \in {"Up", "Rollback", "Reset"} =>
                  (log[i].name \in NamesOf(table)) = (log[i].name \in PreNames)

C15_Witness ==
    /\ op = "Up"
    /\ Len(log) >= 2
    /\ log[Len(log)].ev = "Rollback" /\ ~log[Len(log)].ok
    /\ log[Len(log) - 1].ev = "Commit" /\ ~log[Len(log) - 1].ok
    /\ ErrTransactionFailed \in err.is
    /\ Cardinality(table \ pre) >= 1

\* C16: every failure of Begin, Commit or Rollback inside Runner.Execute is
\* reported as a TransactionFailed error by the operation that called it.
C16_TransactionCallFailureIsTransactionFailed ==
    \A i \in DOMAIN log :
        (log[i].ev \in {"Begin", "Commit", "Rollback"} /\ ~log[i].ok) =>
            (~err.ok /\ ErrTransactionFailed \in err.is)

\* C17: the body of a migration that opts out of transactions runs with no
\* Begin, Commit or Rollback made for it, in either direction; every other
\* body runs right after the one Begin made for that execution, which
\* succeeded.
C17_OptOutRunsWithoutTransaction ==
    \A i \in DOMAIN log :
        log[i].ev = "body" =>
            IF DisableTransaction(log[i].name)
            THEN \A j \in DOMAIN log :
                    log[j].name = log[i].name => log[j].ev \notin {"Begin", "Commit", "Rollback"}
            ELSE /\ i > 1
                 /\ log[i - 1].ev = "Begin" /\ log[i - 1].ok
                 /\ log[i - 1].name = log[i].name /\ log[i - 1].dir = log[i].dir
                 /\ Cardinality(CallsAt("Begin", log[i].name, log[i].dir)) = 1
                 /\ Cardinality(CallsAt("body", log[i].name, log[i].dir)) = 1

C17_Witness ==
    /\ op = "Refresh" /\ err.ok
    /\ \E n \in OptOut : CallsAt("body", n, "down") # {} /\ CallsAt("body", n, "up") # {}
    /\ \E n \in Names \ OptOut : CallsAt("Commit", n, "down") # {} /\ CallsAt("Commit", n, "up") # {}

\* The names reachable from the names of S along declared dependencies.
RECURSIVE DependencyClosure(_)
DependencyClosure(S) ==
    LET T == S \cup UNION {seeders[n] : n \in S \cap DOMAIN seeders}
    IN IF T = S THEN S ELSE DependencyClosure(T)

\* Seeder n lies on a dependency cycle (a self-dependency included).
OnCycle(n) ==
    /\ n \in DOMAIN seeders
    /\ \E d \in seeders[n] : n \in DependencyClosure({d})

HasCycle == \E n \in DOMAIN seeders : OnCycle(n)

\* Every dependency declared by a seeder of S names a registered seeder.
DependenciesRegistered(S) ==
    \A n \in S \cap DOMAIN seeders : seeders[n] \subseteq DOMAIN seeders

\* The seeders whose Run was called, in the order of the calls.
SeedersRun == [i \in DOMAIN log |-> log[i].name]

\* No seeder ran twice, and each ran after all its declared dependencies.
RunInDependencyOrder ==
    /\ \A i, j \in DOMAIN log : i < j => log[i].name # log[j].name
    /\ \A i \in DOMAIN log :
          \A d \in seeders[log[i].name] : \E j \in 1..(i - 1) : log[j].name = d /\ log[j].ok

\* C18: when the dependency graph of the registered seeders is acyclic
\* (every dependency registered), RunAll() runs each seeder only after all
\* its declared dependencies and none twice, and when no Run fails it
\* succeeds having run every registered seeder exactly once.
C18_RunAllRespectsDependencies ==
    (op = "RunAll" /\ ~HasCycle /\ DependenciesRegistered(DOMAIN seeders)) =>
        /\ RunInDependencyOrder
        /\ AllOk => (err.ok /\ {log[i].name : i \in DOMAIN log} = DOMAIN seeders)

C18_Witness ==
    /\ op = "RunAll" /\ err.ok
    /\ Len(log) >= 3
    /\ \E n \in DOMAIN seeders :
          /\ Cardinality(seeders[n]) >= 2
          /\ \E d \in seeders[n] : seeders[d] \cap seeders[n] # {}
    /\ \E i, j \in DOMAIN log : i < j /\ log[i].name > log[j].name

\* C19 as stated: with a dependency cycle among the registered seeders
\* RunAll() returns CircularDependency and runs no seeder.
C19_CycleIsCircularDependency ==
    (op = "RunAll" /\ HasCycle) =>
        /\ ErrCircularDependency \in err.is
        /\ log = <<>>

\* C19 as amended: with a dependency cycle among the registered seeders
\* RunAll() fails and runs no seeder, not even one outside the cycle; the
\* error is CircularDependency when every declared dependency is
\* registered, and CircularDependency or NotFound otherwise.
C19_CycleFailsAndRunsNothing ==
    (op = "RunAll" /\ HasCycle) =>
        /\ ~err.ok
        /\ log = <<>>
        /\ err.is \in {{ErrCircularDependency}, {ErrSeederNotFound}}
        /\ DependenciesRegistered(DOMAIN seeders) => err.is = {ErrCircularDependency}

C19_Witness ==
    /\ op = "RunAll"
    /\ DependenciesRegistered(DOMAIN seeders)
    /\ \E n \in DOMAIN seeders : OnCycle(n) /\ n \notin seeders[n]
    /\ \E n, m \in DOMAIN seeders : n < m /\ OnCycle(m) /\ DependencyClosure({n}) = {n}
    /\ err.is = {ErrCircularDependency}
    /\ log = <<>>

\* C20: Run(name) runs only seeders of the dependency closure of name, none
\* twice and each after its dependencies; when it succeeds it has run
\* exactly that closure with name last; and for an unregistered name it
\* returns NotFound and runs nothing.
C20_RunExecutesClosureOnly ==
    op = "Run" =>
        /\ arg \notin DOMAIN seeders => (ErrSeederNotFound \in err.is /\ log = <<>>)
        /\ {log[i].name : i \in DOMAIN log} \subseteq DependencyClosure({arg}) \cap DOMAIN seeders
        /\ RunInDependencyOrder
        /\ err.ok =>
              /\ {log[i].name : i \in DOMAIN log} = DependencyClosure({arg})
              /\ log[Len(log)].name = arg
        /\ (/\ arg \in DOMAIN seeders
            /\ DependenciesRegistered(DependencyClosure({arg}))
            /\ \A n \in DependencyClosure({arg}) : ~OnCycle(n)
            /\ AllOk) => err.ok

C20_Witness ==
    /\ op = "Run" /\ err.ok
    /\ Len(log) >= 2
    /\ DOMAIN seeders \ DependencyClosure({arg}) # {}
    /\ \E n \in DOMAIN seeders \ DependencyClosure({arg}) : n < arg

\* The registered seeders the resolution of the returned call visited.
VisitedInResolution ==
    LET asc == [n \in DOMAIN seeders |-> SortStrings(KeysOf(seeders[n]))]
        r == IF op = "RunAll" THEN resolveAllOrder(asc, KeysOf(DOMAIN seeders))
             ELSE resolveOrder(asc, arg)
    IN (r.visited \cup r.inProgress) \cap DOMAIN seeders

\* The seeders the returned call has to resolve: all registered ones for
\* RunAll, the dependency closure of the name for Run.
ToResolve ==
    IF op = "RunAll" THEN DOMAIN seeders ELSE DependencyClosure({arg}) \cap DOMAIN seeders

\* C21 as stated: when a seeder visited during resolution declares a
\* dependency that is not registered, RunAll() and Run(name) return
\* NotFound and run no seeder.
C21_MissingDependencyIsNotFound ==
    (/\ op \in {"RunAll", "Run"}
     /\ op = "Run" => arg \in DOMAIN seeders
     /\ ~DependenciesRegistered(VisitedInResolution)) =>
        /\ ErrSeederNotFound \in err.is
        /\ log = <<>>

\* C21 as amended: when a seeder among those to resolve declares a
\* dependency that is not registered, RunAll() and Run(name) fail and run
\* no seeder; the error is NotFound when none of those seeders lies on a
\* dependency cycle, and NotFound or CircularDependency otherwise.
C21_MissingDependencyFailsAndRunsNothing ==
    (/\ op \in {"RunAll", "Run"}
     /\ op = "Run" => arg \in DOMAIN seeders
     /\ ~DependenciesRegistered(ToResolve)) =>
        /\ ~err.ok
        /\ log = <<>>
        /\ err.is \in {{ErrSeederNotFound}, {ErrCircularDependency}}
        /\ (\A n \in ToResolve : ~OnCycle(n)) => err.is = {ErrSeederNotFound}

C21_Witness ==
    /\ op = "Run"
    /\ arg \in DOMAIN seeders
    /\ DependenciesRegistered({arg})
    /\ \E d \in seeders[arg] : ~DependenciesRegistered({d})
    /\ Cardinality(DOMAIN seeders) >= 2
    /\ err.is = {ErrSeederNotFound}
    /\ log = <<>>

\* The order RunAll() runs a registry in when the map yields the names in
\* ascending order and every DependsOn() lists its names in ascending
\* order.
OrderOfSets ==
    resolveAllOrder([n \in DOMAIN seeders |-> AscOf(seeders[n])], AscOf(DOMAIN seeders)).order

\* C22: the order in which a successful RunAll() runs the seeders is the
\* same for every order in which the registry map yields the names and
\* every order in which DependsOn() lists its names, so it depends on the
\* sets only; when no seeder declares a dependency it is ascending by name.
C22_RunAllOrderDependsOnSetsOnly ==
    (op = "RunAll" /\ err.ok) =>
        /\ SeedersRun = OrderOfSets
        /\ (\A n \in DOMAIN seeders : seeders[n] = {}) => SeedersRun = AscOf(DOMAIN seeders)

C22_Witness ==
    /\ op = "RunAll" /\ err.ok
    /\ Len(log) >= 3
    /\ given.names[1] > given.names[2]
    /\ \E n \in DOMAIN seeders :
          Len(given.lists[n]) >= 2 /\ given.lists[n][1] > given.lists[n][2]

\* C23: when a seeder's Run fails in RunAll() or Run(name), that call is
\* the last one made, the returned error holds the seeder's error and
\* names the seeder, and the seeders run before it ran once, successfully,
\* with nothing done to undo them.
C23_SeederFailureStops ==
    op \in {"RunAll", "Run"} =>
        \A i \in DOMAIN log :
            ~log[i].ok =>
                /\ i = Len(log)
                /\ ~err.ok
                /\ "body" \in err.is
                /\ err.names = {log[i].name}
                /\ \A j \in 1..(i - 1) : log[j].ev = "Run" /\ log[j].ok /\ log[j].name # log[i].name

C23_Witness ==
    /\ op = "RunAll"
    /\ Len(log) = 2
    /\ ~log[2].ok
    /\ Cardinality(DOMAIN seeders) = 3
    /\ ~HasCycle /\ DependenciesRegistered(DOMAIN seeders)

\* ---------------------------------------------------------------- C24, C25
\* The successful Register calls made so far.
Successful == {i \in DOMAIN calls : calls[i].ok}

\* C24: after every sequence of Register calls - valid, invalid and
\* duplicate - GetAll() is strictly ascending by name (so no name is held
\* twice), Count() is the number of calls that succeeded, and Get(name)
\* returns the implementation handed to the call that registered name.
C24_RegistryInvariants ==
    /\ \A i, j \in DOMAIN RegistryGetAll(registry) :
           i < j => RegistryGetAll(registry)[i].Name < RegistryGetAll(registry)[j].Name
    /\ RegistryCount(registry) = Cardinality(Successful)
    /\ \A i \in Successful :
           RegistryGetMigration(registry, calls[i].name) = [Migration |-> calls[i].m, err |-> NoErr]

C24_Witness ==
    /\ Len(calls) = MaxCalls
    /\ \E i, j \in Successful : i < j /\ calls[i].name > calls[j].name
    /\ \E i \in DOMAIN calls : ~calls[i].ok /\ ~ValidName(calls[i].name)
    /\ \E i \in DOMAIN calls : ~calls[i].ok /\ ValidName(calls[i].name)
    /\ RegistryCount(registry) = 2

\* C25: a Register call with a name that does not match the pattern
\* returns InvalidName, one with a name already registered returns
\* DuplicateName, and either leaves the registry as it was: same entries in
\* the same order, same Count(), and Get returning the same implementation
\* for every name.
C25_FailedRegisterChangesNothing ==
    [][(op' = "Register" /\ calls' # calls) =>
          LET c == calls'[Len(calls')]
          IN /\ ~ValidName(c.name) => err'.is = {ErrInvalidMigrationName}
             /\ (ValidName(c.name) /\ \E i \in DOMAIN registry : registry[i].Name = c.name)
                    => err'.is = {ErrDuplicateMigration}
             /\ ~err'.ok =>
                    /\ RegistryGetAll(registry') = RegistryGetAll(registry)
                    /\ RegistryCount(registry') = RegistryCount(registry)
                    /\ \A n \in Names \cup {0} :
                           RegistryGetMigration(registry', n) = RegistryGetMigration(registry, n)]_vars

C25_Witness ==
    /\ op = "Register"
    /\ err.is = {ErrDuplicateMigration}
    /\ \E i \in Successful :
          /\ calls[i].name = arg
          /\ calls[i].m # calls[Len(calls)].m
          /\ RegistryGetMigration(registry, arg).Migration = calls[i].m
    /\ \E i \in DOMAIN calls : ~calls[i].ok /\ ~ValidName(calls[i].name)

\* ---------------------------------------------------------------- C26
\* C26: a successful Status() returns one entry per registered migration,
\* in ascending order of name; an entry is applied exactly when the
\* tracking table holds a record of its name, and then carries that
\* record's batch and timestamp, and otherwise batch 0 and a nil timestamp;
\* Status, successful or not, leaves the records as they were.
C26_StatusReflectsRegistryAndRecords ==
    op = "Status" =>
        /\ table = pre
        /\ err.ok =>
              /\ Len(statuses) = Len(migrations)
              /\ \A i \in DOMAIN statuses :
                    /\ statuses[i].Name = migrations[i]
                    /\ \A j \in DOMAIN statuses : i < j => statuses[i].Name < statuses[j].Name
                    /\ statuses[i].Applied <=> \E r \in table : r.name = statuses[i].Name
                    /\ \A r \in table :
                          r.name = statuses[i].Name =>
                              statuses[i].Batch = r.batch /\ statuses[i].AppliedAt = r.at
                    /\ ~statuses[i].Applied =>
                          statuses[i].Batch = 0 /\ statuses[i].AppliedAt = NilTime

C26_Witness ==
    /\ op = "Status" /\ err.ok
    /\ Len(statuses) = 2
    /\ statuses[1].Applied /\ statuses[1].Batch = 2 /\ statuses[1].AppliedAt = 1
    /\ ~statuses[2].Applied
    /\ \E r \in table : r.name \notin Registered

\* ---------------------------------------------------------------- C27, C28
\* The drop statement of the Fresh that returned failed.
DropFailed == \E i \in DOMAIN log : log[i].ev = "DropAll" /\ ~log[i].ok

\* C27: Fresh() without a grammar returns an error and executes no
\* statement at all; Fresh() whose drop statement fails returns an error
\* labelled "drop all tables" and makes no further call. In both cases no
\* hook and no migration body runs and the records are as before.
C27_FreshFailsBeforeUp ==
    op = "Fresh" =>
        /\ grammar = nil => (~err.ok /\ log = <<>> /\ table = pre)
        /\ DropFailed =>
              /\ ~err.ok
              /\ err.ctx[1] = "drop all tables"
              /\ Len(log) = 1
              /\ table = pre

C27_Witness ==
    /\ op = "Fresh"
    /\ grammar # nil
    /\ DropFailed
    /\ pre # {}
    /\ Registered \ PreNames # {}
    /\ beforeHooks # <<>> /\ afterHooks # <<>>

C27_WitnessNoGrammar ==
    /\ op = "Fresh"
    /\ grammar = nil
    /\ pre # {}
    /\ Registered \ PreNames # {}

\* C28: after a Fresh() that returned no error, with any of the three
\* grammars and whatever was applied before, the tracking table holds
\* exactly one record per registered migration, all in batch 1, and the Up
\* of every registered migration ran exactly once, in ascending order:
\* nothing recorded before the call is left.
C28_FreshRebuildsFromEmpty ==
    (op = "Fresh" /\ err.ok) =>
        /\ table = {[name |-> n, batch |-> 1] : n \in Registered}
        /\ BodiesRun("up") = AscOf(Registered)

\* The same for the PostgreSQL grammar alone.
C28_PostgresFreshRebuildsFromEmpty ==
    (op = "Fresh" /\ err.ok /\ grammar = "postgres") =>
        /\ table = {[name |-> n, batch |-> 1] : n \in Registered}
        /\ BodiesRun("up") = AscOf(Registered)

\* ---------------------------------------------------------------- C29
\* The calls Refresh makes in its Up phase: the second reads of the
\* tracking table, the batch number and everything in direction "up".
UpPhaseCall(e) ==
    \/ e.dir = "up"
    \/ e.ev = "GetLastBatchNumber"
    \/ e.ev \in {"EnsureTable", "GetApplied"} /\ e.idx = 2

\* A failed call that ends the operation: any but an after-hook and the
\* Rollback of a transaction.
Fatal(e) == ~e.ok /\ e.ev \notin {"after", "Rollback"}

\* What errors.Is finds for the failure of each kind of call.
IdentityOf(ev) ==
    CASE ev = "body" -> "body"
      [] ev = "before" -> "hook"
      [] ev = "Begin" -> "driver"
      [] ev = "Commit" -> ErrTransactionFailed
      [] ev = "Get" -> ErrMigrationNotFound
      [] OTHER -> ErrTrackingTable

\* C29: a Refresh() fails exactly when one of its calls fails; when the
\* call belongs to the Reset phase no call of Up is made and the error is
\* labelled "refresh reset phase", and when it belongs to the Up phase the
\* error is labelled "refresh up phase"; in both cases the error names the
\* migration the call was made for and holds the error of that call.
C29_RefreshLabelsItsPhases ==
    op = "Refresh" =>
        /\ ~err.ok <=> \E i \in DOMAIN log : Fatal(log[i])
        /\ \A i \in DOMAIN log :
              Fatal(log[i]) =>
                  /\ err.ctx[1] = IF UpPhaseCall(log[i]) THEN "refresh up phase"
                                  ELSE "refresh reset phase"
                  /\ ~UpPhaseCall(log[i]) => \A j \in DOMAIN log : ~UpPhaseCall(log[j])
                  /\ log[i].name # 0 => log[i].name \in err.names
                  /\ IdentityOf(log[i].ev) \in err.is

C29_Witness ==
    /\ op = "Refresh" /\ ~err.ok
    /\ err.ctx[1] = "refresh up phase"
    /\ BodiesRun("down") # <<>>
    /\ \E n \in Names :
          /\ BodyFailed(n, "up")
          /\ n \in err.names
          /\ \E p \in NamesOf(table) : p < n

C29_WitnessResetPhase ==
    /\ op = "Refresh" /\ ~err.ok
    /\ err.ctx[1] = "refresh reset phase"
    /\ \E n \in Names : BodyFailed(n, "down") /\ n \in err.names /\ Registered \ PreNames # {}

\* ---------------------------------------------------------------- C30
\* The goroutines whose Connection(name) returned a handle.
Received(name) ==
    {g \in Routines : routines[g].pc = "done" /\ routines[g].name = name /\ routines[g].err.ok}

\* C30 as stated: however the goroutines calling Connection(name)
\* interleave, driver.Open is invoked at most once for the name and all
\* callers that returned hold the same handle.
C30_OpenInvokedAtMostOnce ==
    \A name \in ConnNames :
        /\ Len(opens[name]) <= 1
        /\ \A g1, g2 \in Received(name) : routines[g1].db = routines[g2].db

\* C30 as amended: however the goroutines interleave, driver.Open
\* succeeds at most once for a name and is never invoked after it has
\* succeeded (so it is invoked at most once when it does not fail), and
\* every caller that receives a handle receives the one handle that Open
\* returned, which is the cached one.
C30_OpenSucceedsAtMostOnce ==
    \A name \in ConnNames :
        /\ \A i \in DOMAIN opens[name] : opens[name][i] => i = Len(opens[name])
        /\ \A g \in Received(name) :
              /\ name \in DOMAIN manager.connections
              /\ routines[g].db = manager.connections[name]
              /\ routines[g].db = Handle(name, Len(opens[name]))
        /\ \A g1, g2 \in Received(name) : routines[g1].db = routines[g2].db

C30_Witness ==
    \E name \in ConnNames :
        /\ Cardinality(Received(name)) = MaxRoutines
        /\ opens[name] = <<TRUE>>

\* ---------------------------------------------------------------- C31
\* The statements on the tracking table.
TrackingStatements ==
    {"EnsureTable", "GetApplied", "GetLastBatchNumber", "GetByBatch", "Record", "Remove"}

\* C31: in Up, Rollback, Reset, Refresh and Status a failed statement on
\* the tracking table is the last call of the operation, and the error
\* returned is a TrackingTableError under all the context added above the
\* Tracker.
C31_TrackingFailureKeepsItsKind ==
    op \in {"Up", "Rollback", "Reset", "Refresh", "Status"} =>
        \A i \in DOMAIN log :
            (log[i].ev \in TrackingStatements /\ ~log[i].ok) =>
                /\ i = Len(log)
                /\ ~err.ok
                /\ ErrTrackingTable \in err.is

C31_Witness ==
    /\ op = "Refresh"
    /\ log # <<>>
    /\ log[Len(log)].ev = "GetLastBatchNumber" /\ ~log[Len(log)].ok
    /\ err.ctx[1] = "refresh up phase"
    /\ Len(err.ctx) >= 3
    /\ BodiesRun("down") # <<>>
    /\ ErrTrackingTable \in err.is

C31_WitnessStatus ==
    /\ op = "Status"
    /\ ~err.ok
    /\ pre # {}
    /\ ErrTrackingTable \in err.is

\* C32: Builder.Alter hands the statements CompileAlter returned to the
\* executor one at a time, in the order of the list; the first statement
\* that fails is the last one executed and its failure is what Alter
\* returns; when every statement succeeds all of them are executed and
\* Alter returns nil; when CompileAlter fails no statement is executed
\* and Alter returns the compile error.
C32_AlterRunsInOrderUntilFirstFailure ==
    compiled.call = "CompileAlter" =>
        LET n == Len(executed.calls)
        IN /\ ~compiled.ok =>
                 /\ executed.calls = <<>>
                 /\ ~executed.ok
                 /\ executed.err = compiled.err
           /\ compiled.ok =>
                 /\ n <= Len(compiled.stmts)
                 /\ \A i \in 1..n : executed.calls[i].stmt = compiled.stmts[i]
                 /\ \A i \in 1..n :
                        ~executed.calls[i].ok =>
                            /\ i = n
                            /\ ~executed.ok
                            /\ executed.err = SchemaErr({ErrExec}, "", i)
                 /\ (\A i \in 1..n : executed.calls[i].ok) =>
                        /\ n = Len(compiled.stmts)
                        /\ executed.ok

\* An Alter of four statements whose second statement failed.
C32_Witness ==
    /\ compiled.call = "CompileAlter"
    /\ compiled.ok
    /\ Len(compiled.stmts) = 4
    /\ Len(executed.calls) = 2
    /\ executed.calls[1].ok
    /\ ~executed.calls[2].ok
    /\ ~executed.ok

\* An Alter whose compilation failed on the second column.
C32_WitnessCompileFails ==
    /\ compiled.call = "CompileAlter"
    /\ ~compiled.ok
    /\ Len(blueprint.columns) = 2
    /\ blueprint.columns[1].Type = TypeInteger
    /\ blueprint.commands # <<>>
    /\ ErrUnsupportedType \in executed.err.is
    /\ executed.calls = <<>>

\* The column clauses of a compiled CREATE TABLE, one for each column of
\* the blueprint, in its order.
Clause(i) == {compiled.parts[i][k] : k \in DOMAIN compiled.parts[i]}

\* The auto-increment keys that are not null without saying so: SERIAL
\* and BIGSERIAL of PostgreSQL, INTEGER PRIMARY KEY AUTOINCREMENT of SQLite.
ImplicitNotNull(g, col) ==
    /\ col.IsAutoIncrement
    /\ IsIntegerType(col)
    /\ g = "postgres" \/ (g = "sqlite" /\ col.IsPrimary)

\* C33: for each grammar and every blueprint with a column, the text of
\* CompileCreate has NOT NULL in the clause of every non-nullable column
\* that is no implicit-not-null auto-increment key, DEFAULT in the clause
\* of every column with a default value, and UNIQUE in the clause of
\* every column marked unique.
C33_ColumnFeaturesAppearInCreate ==
    (compiled.call = "CompileCreate" /\ compiled.ok) =>
        \A i \in DOMAIN blueprint.columns :
            LET col == blueprint.columns[i]
            IN /\ (~col.IsNullable /\ ~ImplicitNotNull(compiled.grammar, col)) =>
                      "NOT NULL" \in Clause(i)
               /\ col.DefaultValue # <<>> => "DEFAULT" \in Clause(i)
               /\ col.IsUnique => "UNIQUE" \in Clause(i)

\* The same for every column that SQLite does not compile to its inline
\* auto-increment primary key.
C33_FeaturesAppearOutsideInlineKey ==
    (compiled.call = "CompileCreate" /\ compiled.ok) =>
        \A i \in DOMAIN blueprint.columns :
            LET col == blueprint.columns[i]
            IN ~(compiled.grammar = "sqlite" /\ isInlineAutoIncrementPK(col)) =>
                  /\ (~col.IsNullable /\ ~ImplicitNotNull(compiled.grammar, col)) =>
                         "NOT NULL" \in Clause(i)
                  /\ col.DefaultValue # <<>> => "DEFAULT" \in Clause(i)
                  /\ col.IsUnique => "UNIQUE" \in Clause(i)

\* A SQLite CREATE TABLE of one inline key column that has a default and
\* is marked unique.
C33_InlineKeyWithDefault ==
    /\ compiled.call = "CompileCreate"
    /\ compiled.ok
    /\ compiled.grammar = "sqlite"
    /\ Len(blueprint.columns) = 1
    /\ isInlineAutoIncrementPK(blueprint.columns[1])
    /\ blueprint.columns[1].DefaultValue # <<>>
    /\ blueprint.columns[1].IsUnique
    /\ compiled.stmts = <<"CREATE TABLE \"t\" (\"c1\" INTEGER PRIMARY KEY AUTOINCREMENT)">>

\* A PostgreSQL CREATE TABLE of a string column whose default holds a
\* single quote, next to a boolean column with a default.
C33_QuotedStringDefault ==
    /\ compiled.call = "CompileCreate"
    /\ compiled.grammar = "postgres"
    /\ compiled.stmts = <<"CREATE TABLE \"t\" (\"c1\" VARCHAR(255) NOT NULL DEFAULT 'it''s', "
                            \o "\"c2\" BOOLEAN NOT NULL DEFAULT TRUE)">>

\* The dialect types of the logical types that take no argument and read
\* no flag: PostgreSQL, MySQL, SQLite.
FixedTypes ==
    [text |-> <<"TEXT", "TEXT", "TEXT">>,
     boolean |-> <<"BOOLEAN", "TINYINT(1)", "INTEGER">>,
     timestamp |-> <<"TIMESTAMPTZ", "TIMESTAMP", "TEXT">>,
     date |-> <<"DATE", "DATE", "TEXT">>,
     float |-> <<"DOUBLE PRECISION", "DOUBLE", "REAL">>,
     uuid |-> <<"UUID", "CHAR(36)", "TEXT">>,
     json |-> <<"JSONB", "JSON", "TEXT">>,
     binary |-> <<"BYTEA", "BLOB", "BLOB">>]

\* The dialect type the column-type matrix gives for a column of one of
\* the twelve logical types.
Matrix(g, col) ==
    LET len == IF col.Length > 0 THEN col.Length ELSE 255
        p == IF col.Precision > 0 THEN col.Precision ELSE 10
        s == IF col.Scale > 0 THEN col.Scale ELSE 0
        dialect == CASE g = "postgres" -> 1 [] g = "mysql" -> 2 [] g = "sqlite" -> 3
        big == col.Type = TypeBigInteger
    IN IF col.Type \in DOMAIN FixedTypes THEN FixedTypes[col.Type][dialect]
       ELSE IF col.Type = TypeString
            THEN (IF g = "sqlite" THEN "TEXT" ELSE "VARCHAR(" \o ToString(len) \o ")")
       ELSE IF col.Type = TypeDecimal
            THEN (IF g = "sqlite" THEN "REAL"
                  ELSE "DECIMAL(" \o ToString(p) \o ", " \o ToString(s) \o ")")
       ELSE IF g = "postgres"
            THEN (IF col.IsAutoIncrement THEN (IF big THEN "BIGSERIAL" ELSE "SERIAL")
                  ELSE IF big THEN "BIGINT" ELSE "INTEGER")
       ELSE IF g = "mysql"
            THEN JoinStrings(<<IF big THEN "BIGINT" ELSE "INT">>
                                 \o (IF col.IsUnsigned THEN <<"UNSIGNED">> ELSE <<>>)
                                 \o (IF col.IsAutoIncrement THEN <<"AUTO_INCREMENT">> ELSE <<>>),
                             " ")
       ELSE JoinStrings(<<"INTEGER">>
                            \o (IF col.IsPrimary /\ col.IsAutoIncrement
                                THEN <<"PRIMARY KEY AUTOINCREMENT">> ELSE <<>>),
                        " ")

\* C34: for each grammar CompileColumnType gives, for a column of each of
\* the twelve logical types, exactly the dialect type of the matrix
\* (length 255 and precision (10, 0) when none is given, the
\* auto-increment and unsigned variants of the integer types), and for a
\* column of any other type fails with UnsupportedType in an error that
\* names the column.
C34_ColumnTypeFollowsMatrix ==
    compiled.call = "CompileColumnType" =>
        LET col == blueprint.columns[1]
        IN IF col.Type \in ColumnTypes
           THEN /\ compiled.ok
                /\ compiled.stmts = <<Matrix(compiled.grammar, col)>>
           ELSE /\ ~compiled.ok
                /\ ErrUnsupportedType \in compiled.err.is
                /\ compiled.err.column = col.Name

\* MySQL compiled an unsigned auto-increment big integer.
C34_Witness ==
    /\ compiled.call = "CompileColumnType"
    /\ compiled.grammar = "mysql"
    /\ blueprint.columns[1].Type = TypeBigInteger
    /\ blueprint.columns[1].IsUnsigned
    /\ blueprint.columns[1].IsAutoIncrement
    /\ compiled.stmts = <<"BIGINT UNSIGNED AUTO_INCREMENT">>

\* PostgreSQL compiled a string without a length and a decimal without a
\* precision.
C34_WitnessDefaults ==
    /\ compiled.call = "CompileColumnType"
    /\ compiled.grammar = "postgres"
    /\ \/ blueprint.columns[1].Length = 0 /\ compiled.stmts = <<"VARCHAR(255)">>
       \/ /\ blueprint.columns[1].Precision = 0
          /\ blueprint.columns[1].Scale = -1
          /\ compiled.stmts = <<"DECIMAL(10, 0)">>

\* A grammar refused a column of an unknown type.
C34_WitnessUnsupported ==
    /\ compiled.call = "CompileColumnType"
    /\ blueprint.columns[1].Type = TypeUnknown
    /\ ~compiled.ok
    /\ compiled.err.column = "c"

\* The clauses of a compiled CREATE TABLE that declare a primary key: a
\* column clause whose type is the inline key of SQLite, or a table-level
\* PRIMARY KEY (...) clause.
PrimaryKeyClauses ==
    {i \in DOMAIN compiled.parts :
        \/ compiled.parts[i][1] = "PRIMARY KEY"
        \/ InlinePrimaryKey \in Clause(i)}

\* C40: for every grammar and blueprint the compiled CREATE TABLE
\* declares the primary key at most once: inline on a single
\* auto-increment column or as one table-level PRIMARY KEY (...) clause,
\* never both.
C40_PrimaryKeyDeclaredAtMostOnce ==
    (compiled.call = "CompileCreate" /\ compiled.ok) =>
        Cardinality(PrimaryKeyClauses) <= 1

\* PostgreSQL and MySQL declare the primary key at most once, and SQLite
\* does when at most one column of the blueprint is primary.
C40_DeclaredOnceForOnePrimaryColumn ==
    (/\ compiled.call = "CompileCreate"
     /\ compiled.ok
     /\ \/ compiled.grammar # "sqlite"
        \/ Cardinality({i \in DOMAIN blueprint.columns : blueprint.columns[i].IsPrimary}) <= 1) =>
        Cardinality(PrimaryKeyClauses) <= 1

\* A SQLite CREATE TABLE with an inline key on the first column and a
\* table-level key on the second.
C40_InlineAndTableLevelKey ==
    /\ compiled.call = "CompileCreate"
    /\ compiled.ok
    /\ compiled.grammar = "sqlite"
    /\ compiled.stmts =
          <<"CREATE TABLE \"t\" (\"c1\" INTEGER PRIMARY KEY AUTOINCREMENT, \"c2\" INTEGER NOT NULL, PRIMARY KEY (\"c2\"))">>

\* The call (ev, n, "up") was made and succeeded.
Succeeded(ev, n) ==
    \E i \in DOMAIN log : log[i].ev = ev /\ log[i].name = n /\ log[i].dir = "up" /\ log[i].ok

\* The Up body of n was executed and its transaction committed (a
\* migration that disables the transaction has none to commit).
Committed(n) ==
    /\ Succeeded("body", n)
    /\ DisableTransaction(n) \/ Succeeded("Commit", n)

\* C35: whenever Up() returns, with or without an error and with at most
\* one failing call, a migration without a record before the call has a
\* tracking record exactly if its Up body was executed and its
\* transaction committed.
C35_RecordedIffCommitted ==
    (op = "Up" /\ Cardinality(FailedCalls) <= 1) =>
        \A n \in Names \ PreNames : n \in NamesOf(table) <=> Committed(n)

\* A record never exists for a change that was not committed, and a
\* committed change has its record unless the insert of the record failed.
C35_RecordedOnlyIfCommitted ==
    op = "Up" =>
        \A n \in Names \ PreNames :
            /\ n \in NamesOf(table) => Committed(n)
            /\ (Committed(n) /\ Succeeded("Record", n)) => n \in NamesOf(table)
            /\ (Committed(n) /\ n \notin NamesOf(table)) =>
                   /\ <<"Record", n, "up", 1>> \in FailedCalls
                   /\ ErrTrackingTable \in err.is

\* Up() returned after the transaction of a migration committed and the
\* insert of its record failed.
C35_CommittedWithoutRecord ==
    /\ op = "Up"
    /\ \E n \in Names \ PreNames :
          /\ ~DisableTransaction(n)
          /\ Succeeded("Commit", n)
          /\ n \notin NamesOf(table)
    /\ FailedCalls = {<<"Record", CHOOSE n \in Names \ PreNames : Succeeded("Commit", n)
                                                                   /\ n \notin NamesOf(table),
                        "up", 1>>}
    /\ ~err.ok

\* C36: every transaction Runner.Execute began is ended before it
\* returns: after a Begin that succeeded either the Commit succeeded or
\* a Rollback was attempted, and a Commit is attempted only after the
\* body ran and returned nil (never after a failed body or for a
\* direction that is neither up nor down).
C36_TransactionEndedBeforeReturn ==
    \A i \in DOMAIN log :
        (log[i].ev = "Begin" /\ log[i].ok) =>
            LET Later(j, ev) ==
                    j > i /\ log[j].ev = ev /\ log[j].name = log[i].name /\ log[j].dir = log[i].dir
            IN /\ \E j \in DOMAIN log : (Later(j, "Commit") /\ log[j].ok) \/ Later(j, "Rollback")
               /\ (\E j \in DOMAIN log : Later(j, "Commit")) =>
                      \E j \in DOMAIN log : Later(j, "body") /\ log[j].ok
               /\ \A j \in DOMAIN log : \A k \in DOMAIN log :
                      (Later(j, "Commit") /\ Later(k, "body")) => k < j

\* Execute was called with a direction that is neither up nor down: the
\* transaction was begun and rolled back, and no Commit was attempted.
C36_Witness ==
    /\ op = "Execute"
    /\ ~err.ok
    /\ Len(log) = 2
    /\ log[1].ev = "Begin" /\ log[1].ok /\ log[1].dir = "sideways"
    /\ log[2].ev = "Rollback"

\* Execute returned after the body failed and the Rollback failed too.
C36_WitnessFailedBody ==
    /\ op = "Execute"
    /\ Len(log) = 3
    /\ log[1].ev = "Begin" /\ log[1].ok
    /\ log[2].ev = "body" /\ ~log[2].ok
    /\ log[3].ev = "Rollback" /\ ~log[3].ok

\* C37: Rollback(n) with n > 0 undoes the most recently applied
\* migrations first: when it returns, no record of an earlier batch has
\* been removed while a record of a later batch is still in the table.
C37_RollbackStepsNewestBatchFirst ==
    (op = "Rollback" /\ arg > 0) =>
        \A r \in pre \ table : \A kept \in table : r.batch >= kept.batch

\* The same when the batches of the records follow the order of their
\* names (no earlier name was applied in a later Up()).
C37_NewestFirstWhenNamesFollowBatches ==
    (/\ op = "Rollback"
     /\ arg > 0
     /\ \A a \in pre : \A b \in pre : a.name < b.name => a.batch <= b.batch) =>
        \A r \in pre \ table : \A kept \in table : r.batch >= kept.batch

\* Rollback(1) removed the record of batch 1 and left the record of
\* batch 2, whose name is the earlier one.
C37_EarlierBatchRolledBack ==
    /\ op = "Rollback"
    /\ arg = 1
    /\ err.ok
    /\ pre = {[name |-> 1, batch |-> 2], [name |-> 2, batch |-> 1]}
    /\ table = {[name |-> 1, batch |-> 2]}
    /\ BodiesRun("down") = <<2>>

\* C38: starting from an empty tracking table, after any sequence of
\* Register, Up, Rollback, Reset and Refresh with failing bodies, hooks
\* and statements, no name has more than one record, every recorded name
\* is registered, and the batch of every record is at least 1.
C38_RecordsUniqueRegisteredPositive ==
    \A r \in table :
        /\ \A other \in table : other.name = r.name => other = r
        /\ r.name \in Registered
        /\ r.batch >= 1

\* A Refresh failed in its up phase after it had recorded two migrations
\* again.
C38_Witness ==
    /\ op = "Refresh"
    /\ ~err.ok
    /\ FailedCalls # {}
    /\ Cardinality(table) >= 2
    /\ BodiesRun("down") # <<>>

\* ---------------------------------------------------------------- C39
\* The tracking tables a Migrator can be opened on: the records earlier
\* runs left, at most one per name, whatever this run goes on to register.
StoredRecords ==
    UNION {{{[name |-> n, batch |-> f[n]] : n \in S} : f \in [S -> 1..MaxBatch]} :
               S \in SUBSET Names}

InitStored == \E tbl \in StoredRecords : New(tbl, nil)

NextStored ==
    \/ \E name \in Names : Register(name)
    \/ BeforeMigrate
    \/ Rollback
    \/ Reset
    \/ Return

SpecStored == InitStored /\ [][NextStored]_vars

\* The calls made for a record once its migration was looked up.
CallsForRecord == {"before", "Begin", "body", "Commit", "Rollback", "Remove", "after"}

\* Every call that failed is a lookup or an after-hook.
OnlyLookupsFail ==
    \A i \in DOMAIN log : ~log[i].ok => log[i].ev \in {"Get", "after"}

\* The largest recorded name that is not registered: the first one Reset
\* reaches.
FirstUnregistered ==
    CHOOSE u \in PreNames \ Registered : \A v \in PreNames \ Registered : v <= u

\* C39: when Rollback or Reset looks up a recorded name that is not
\* registered, the lookup fails and is the last call of the operation,
\* which returns MigrationNotFound; no hook, transaction, Down or Remove
\* was called for that name; its record and the records of the names not
\* looked up are still in the table, and the records of the names looked
\* up before it are gone. Reset, when nothing else fails, reaches the
\* largest unregistered name and leaves exactly the records up to it.
C39_UnregisteredRecordStopsRollback ==
    op \in {"Rollback", "Reset"} =>
        /\ \A i \in DOMAIN log :
              (log[i].ev = "Get" /\ log[i].name \notin Registered) =>
                  /\ ~log[i].ok
                  /\ i = Len(log)
                  /\ ~err.ok
                  /\ ErrMigrationNotFound \in err.is
                  /\ \A j \in DOMAIN log :
                        log[j].name = log[i].name => log[j].ev \notin CallsForRecord
                  /\ log[i].name \in NamesOf(table)
                  /\ \A r \in pre :
                        (\A j \in DOMAIN log : log[j].ev = "Get" => log[j].name # r.name)
                            => r \in table
                  /\ \A j \in 1..(i - 1) :
                        log[j].ev = "Get" => log[j].name \notin NamesOf(table)
                  /\ table \subseteq pre
        /\ (op = "Reset" /\ OnlyLookupsFail /\ PreNames \ Registered # {}) =>
              /\ ~err.ok
              /\ ErrMigrationNotFound \in err.is
              /\ table = {r \in pre : r.name <= FirstUnregistered}

\* Reset removed the records above an unregistered name and stopped at it.
C39_Witness ==
    /\ op = "Reset"
    /\ ~err.ok
    /\ ErrMigrationNotFound \in err.is
    /\ table # pre
    /\ Cardinality(table) >= 2
    /\ BodiesRun("down") # <<>>

\* Rollback, with a before-hook registered, stopped at an unregistered
\* name after rolling back a registered one.
C39_WitnessRollback ==
    /\ op = "Rollback"
    /\ beforeHooks # <<>>
    /\ ~err.ok
    /\ ErrMigrationNotFound \in err.is
    /\ table # pre
    /\ table # {}

====
